---- MODULE Spec2Model ----
(***************************************************************************)
(* Model of the programs of the repository, one specification for each:    *)
(*   Spec           composite/plugin-release/release.sh (the current       *)
(*                  script, file lines 175-409): one run of the release    *)
(*                  script against a local clone and its remote            *)
(*   SpecComment    actions/comment-update: sequential runs of the action  *)
(*                  on one pull request                                    *)
(*   SpecConcurrent actions/comment-update: two runs at the same time      *)
(*   SpecFetch      actions/comment-update: _fetchUnreleasedCommits        *)
(*   SpecMerge      composite/github-release-note-merge                    *)
(*   SpecIndex      composite/plugin-release-index/index-plugin-release.sh *)
(*   SpecIndex_002  the indexing script that takes the versions as         *)
(*                  arguments                                              *)
(*                                                                         *)
(* Strings are sequences of tokens.  A token is one decimal digit, ".",    *)
(* "-", the word "SNAPSHOT", or "x" (any other letter); ref names use the  *)
(* extra tokens "v", "releases/v", ".x" and "main".                        *)
(***************************************************************************)
EXTENDS Integers, Sequences, FiniteSets, TLC

(* ---------------------------------------------------------------------- *)
(* Bounds of the explored inputs                                           *)
(* ---------------------------------------------------------------------- *)
MaxMajor == 2
MaxMinor == 1
MaxPatch == 1

(* ---------------------------------------------------------------------- *)
(* Text helpers: what cut, sed, grep and [[ =~ ]] do on token sequences    *)
(* ---------------------------------------------------------------------- *)
DigitStr == <<"0", "1", "2", "3", "4", "5", "6", "7", "8", "9">>

Digits == {DigitStr[i] : i \in 1..10}

DigitVal(c) == (CHOOSE i \in 1..10 : DigitStr[i] = c) - 1

IsDigits(s) == Len(s) > 0 /\ \A i \in 1..Len(s) : s[i] \in Digits

Empty == << >>

SNAPSHOT_SUFFIX == <<"-", "SNAPSHOT">>

(* [[ "$s" =~ -SNAPSHOT$ ]] and [[ "$s" == *"-SNAPSHOT" ]] *)
EndsWithDashSnapshot(s) ==
    /\ Len(s) >= 2
    /\ s[Len(s) - 1] = "-"
    /\ s[Len(s)] = "SNAPSHOT"

(* [[ "$s" =~ SNAPSHOT$ ]] : no dash is required *)
EndsWithSnapshot(s) == Len(s) >= 1 /\ s[Len(s)] = "SNAPSHOT"

(* sed 's/-SNAPSHOT//' : the first occurrence is removed, wherever it is *)
StripSnapshot(s) ==
    LET hits == {i \in 1..(Len(s) - 1) : s[i] = "-" /\ s[i + 1] = "SNAPSHOT"}
    IN  IF hits = {} THEN s
        ELSE LET i == CHOOSE k \in hits : \A j \in hits : k <= j
             IN  SubSeq(s, 1, i - 1) \o SubSeq(s, i + 2, Len(s))

(* the fields of s around the delimiter "." *)
RECURSIVE SplitDot(_)
SplitDot(s) ==
    LET dots == {i \in 1..Len(s) : s[i] = "."}
    IN  IF dots = {} THEN <<s>>
        ELSE LET i == CHOOSE k \in dots : \A j \in dots : k <= j
             IN  <<SubSeq(s, 1, i - 1)>> \o SplitDot(SubSeq(s, i + 1, Len(s)))

(* cut -d'.' -fn : a line without the delimiter is printed whole, a field *)
(* past the last one is empty                                              *)
CutDot(s, n) ==
    LET f == SplitDot(s)
    IN  IF Len(f) = 1 THEN s
        ELSE IF n <= Len(f) THEN f[n] ELSE Empty

(* length of the longest prefix of s made of digits *)
DigitRun(s) ==
    LET stops == {i \in 1..Len(s) : s[i] \notin Digits}
    IN  IF stops = {} THEN Len(s)
        ELSE (CHOOSE k \in stops : \A j \in stops : k <= j) - 1

(* grep -Eo '^[0-9]+\.[0-9]+' : the matched prefix, or no match (exit 1) *)
GrepBase(s) ==
    LET a == DigitRun(s)
        rest == SubSeq(s, a + 2, Len(s))
        b == DigitRun(rest)
    IN  IF a >= 1 /\ Len(s) >= a + 1 /\ s[a + 1] = "." /\ b >= 1
        THEN [matched |-> TRUE, text |-> SubSeq(s, 1, a + 1 + b)]
        ELSE [matched |-> FALSE, text |-> Empty]

(* [[ "$s" =~ ^[0-9]+\.0\.0$ ]] *)
MatchesMajor(s) ==
    LET f == SplitDot(s)
    IN  Len(f) = 3 /\ IsDigits(f[1]) /\ f[2] = <<"0">> /\ f[3] = <<"0">>

(* the MINOR pattern with [0-9]+ for the minor number *)
MatchesMinor_AnyDigits(s) ==
    LET f == SplitDot(s)
    IN  Len(f) = 3 /\ IsDigits(f[1]) /\ IsDigits(f[2]) /\ f[3] = <<"0">>

(* [[ "$s" =~ ^[0-9]+\.[1-9][0-9]*\.0$ ]] *)
MatchesMinor(s) ==
    LET f == SplitDot(s)
    IN  /\ Len(f) = 3
        /\ IsDigits(f[1])
        /\ IsDigits(f[2]) /\ f[2][1] # "0"
        /\ f[3] = <<"0">>

(* value of a digit string in the given base *)
RECURSIVE NumIn(_, _)
NumIn(s, base) ==
    IF s = Empty THEN 0
    ELSE NumIn(SubSeq(s, 1, Len(s) - 1), base) * base + DigitVal(s[Len(s)])

(* A shell word used as an operand of (( )) under set -u:                  *)
(*   empty word             -> 0                                           *)
(*   digits                 -> the number (octal with a leading 0)         *)
(*   a name, or digits-name -> reference to an unset variable: the shell   *)
(*                             stops with "unbound variable"               *)
(*   anything else          -> arithmetic syntax error: the (( )) command  *)
(*                             returns 1 and the script goes on            *)
Arith(s) ==
    IF s = Empty THEN [kind |-> "num", val |-> 0]
    ELSE IF IsDigits(s) THEN
        IF Len(s) > 1 /\ s[1] = "0"
        THEN IF \A i \in 1..Len(s) : DigitVal(s[i]) < 8
             THEN [kind |-> "num", val |-> NumIn(s, 8)]
             ELSE [kind |-> "syntax", val |-> 0]
        ELSE [kind |-> "num", val |-> NumIn(s, 10)]
    ELSE LET a == DigitRun(s)
             rest == SubSeq(s, a + 1, Len(s))
             IsName(t) == Len(t) > 0 /\ \A i \in 1..Len(t) : t[i] \in {"x", "SNAPSHOT"}
         IN  IF a = 0 /\ IsName(rest) THEN [kind |-> "unbound", val |-> 0]
             ELSE IF a >= 1 /\ Len(rest) >= 2 /\ rest[1] = "-"
                     /\ IsName(SubSeq(rest, 2, Len(rest)))
             THEN [kind |-> "unbound", val |-> 0]
             ELSE [kind |-> "syntax", val |-> 0]

(* ---------------------------------------------------------------------- *)
(* Inputs of a run and initial repository states                           *)
(* ---------------------------------------------------------------------- *)
V(a, b, c) == <<DigitStr[a + 1], ".", DigitStr[b + 1], ".", DigitStr[c + 1]>>

Lines == {<<DigitStr[a + 1], ".", DigitStr[b + 1]>> : a \in 1..MaxMajor, b \in 0..MaxMinor}

WellFormedVersions == {V(a, b, c) : a \in 1..MaxMajor, b \in 0..MaxMinor, c \in 0..MaxPatch}

(* release versions that are not MAJOR.MINOR.PATCH: a missing component,  *)
(* a non-numeric component, the snapshot suffix, trailing text, no dot     *)
MalformedVersions ==
    { <<"1", ".", "1">>,
      <<"1", ".", "x", ".", "0">>,
      <<"1", ".", "0", ".", "1", "-", "SNAPSHOT">>,
      <<"1", ".", "0", ".", "1", "x">>,
      <<"x">> }

(* three numeric components, the minor written with a leading zero *)
LeadingZeroVersions == { <<"1", ".", "0", "1", ".", "0">> }

ReleaseVersions == WellFormedVersions \cup MalformedVersions \cup LeadingZeroVersions

NextVersions == {Empty, <<"3", ".", "0", ".", "0", "-", "SNAPSHOT">>, <<"3", ".", "0", ".", "0">>}

KestraVersions == {Empty, <<"1", ".", "0", ".", "0">>, <<"1", ".", "0", ".", "0", "-", "SNAPSHOT">>}

NoLine == [present |-> FALSE, value |-> Empty]

Line(v) == [present |-> TRUE, value |-> v]

(* the version= line of gradle.properties on the branch the run starts on *)
RecordedVersions ==
    {Line(V(a, b, 0)) : a \in 1..MaxMajor, b \in 0..MaxMinor}
    \cup {Line(V(a, b, 0) \o SNAPSHOT_SUFFIX) : a \in 1..MaxMajor, b \in 0..MaxMinor}
    \cup {NoLine}

BranchOfLine(l) == <<"releases/v">> \o l \o <<".x">>

AtMostOne(S) == {{}} \cup {{x} : x \in S}

StartsWith(s, prefix) == Len(s) >= Len(prefix) /\ SubSeq(s, 1, Len(prefix)) = prefix

VARIABLES
    RELEASE_VERSION, NEXT_VERSION, KESTRA_VERSION, DRY_RUN,
    pc, CURRENT_VERSION, exitCode, diag, ops,
    gradleProperties, HEAD, localBranches, localTags, localCommits,
    remoteBranches, remoteTags, pushes, remoteUrl,
    repo0,
    comments, runLog, addSummary, summary,
    workers,
    fetchPc, latestTag, defaultBranch, compare, calls, returned,
    GITHUB_TOKEN, RELEASE_TAG, releases, mergePc, releaseNotes, allReleasesFound,
    mergedChangelog, requests, runsDone,
    gradle, gitHead, indexArgs, shellVars, indexPc, SUB_PROJECTS, indexOut, indexExit

inputs == <<RELEASE_VERSION, NEXT_VERSION, KESTRA_VERSION, DRY_RUN>>

script == <<pc, CURRENT_VERSION, exitCode, diag, ops>>

localRepo == <<gradleProperties, HEAD, localBranches, localTags, localCommits>>

remoteRepo == <<remoteBranches, remoteTags, pushes, remoteUrl>>

release == <<inputs, script, localRepo, remoteRepo, repo0>>

(* the pull request the comment action works on: its issue comments, the   *)
(* (title, content) of the runs made so far, and the add-summary input and *)
(* the job summary of the latest run                                       *)
commentUpdate == <<comments, runLog, addSummary, summary>>

(* the instances of the comment action that run at the same time *)
concurrentRuns == <<workers>>

(* what a release run does not touch, what a comment run does not touch *)
(* a call of _fetchUnreleasedCommits: where it is, its locals, the GitHub  *)
(* calls it made and what it returned                                      *)
fetchUnreleased == <<fetchPc, latestTag, defaultBranch, compare, calls, returned>>

(* the release-note merge: its environment, the releases on GitHub, where  *)
(* the script is, its locals, the requests it sent and the runs completed  *)
releaseNoteMerge ==
    <<GITHUB_TOKEN, RELEASE_TAG, releases, mergePc, releaseNotes, allReleasesFound,
      mergedChangelog, requests, runsDone>>

(* a run of a release-indexing script: the Gradle build and the checkout   *)
(* it reads, its arguments, its global shell variables, where it is, the   *)
(* projects left to index, what it posted or printed, and its exit code    *)
pluginIndex ==
    <<gradle, gitHead, indexArgs, shellVars, indexPc, SUB_PROJECTS, indexOut, indexExit>>

outsideRelease ==
    <<commentUpdate, concurrentRuns, fetchUnreleased, releaseNoteMerge, pluginIndex>>

outsideComments == <<release, fetchUnreleased, releaseNoteMerge, pluginIndex>>

outsideFetch == <<release, commentUpdate, concurrentRuns, releaseNoteMerge, pluginIndex>>

outsideMerge == <<release, commentUpdate, concurrentRuns, fetchUnreleased, pluginIndex>>

outsideIndex ==
    <<release, commentUpdate, concurrentRuns, fetchUnreleased, releaseNoteMerge>>

vars ==
    <<release, commentUpdate, concurrentRuns, fetchUnreleased, releaseNoteMerge,
      pluginIndex>>

(* a value that may be null or undefined, and a ?? b *)
Null == [null |-> TRUE, value |-> << >>]

Some(v) == [null |-> FALSE, value |-> v]

Coalesce(a, b) == IF a.null THEN b ELSE a

DEFAULT_BRANCH == <<"main">>

(* the repository as an observer sees it: working tree, refs, remote *)
RepoState ==
    [ gradleProperties |-> gradleProperties,
      HEAD |-> HEAD,
      localBranches |-> localBranches,
      localTags |-> localTags,
      localCommits |-> localCommits,
      remoteBranches |-> remoteBranches,
      remoteTags |-> remoteTags,
      pushes |-> pushes ]

(* the programs that take no part in the run of one of them *)
Idle(running) ==
    /\ IF running = "release" THEN TRUE
       ELSE /\ RELEASE_VERSION = Empty
            /\ NEXT_VERSION = Empty
            /\ KESTRA_VERSION = Empty
            /\ DRY_RUN = FALSE
            /\ pc = "idle"
            /\ CURRENT_VERSION = Empty
            /\ exitCode = -1
            /\ diag = "none"
            /\ ops = << >>
            /\ gradleProperties = [version |-> NoLine, kestraVersion |-> NoLine]
            /\ HEAD = DEFAULT_BRANCH
            /\ localBranches = {DEFAULT_BRANCH}
            /\ localTags = {}
            /\ localCommits = << >>
            /\ remoteBranches = {DEFAULT_BRANCH}
            /\ remoteTags = {}
            /\ pushes = << >>
            /\ remoteUrl = "plain"
            /\ repo0 = RepoState
    /\ IF running = "comment" THEN TRUE
       ELSE /\ comments = << >>
            /\ runLog = << >>
            /\ addSummary = FALSE
            /\ summary = << >>
            /\ workers = << >>
    /\ IF running = "fetch" THEN TRUE
       ELSE /\ fetchPc = "idle"
            /\ latestTag = Null
            /\ defaultBranch = << >>
            /\ compare = Null
            /\ calls = << >>
            /\ returned = [latestTag |-> << >>, commits |-> << >>]
    /\ IF running = "merge" THEN TRUE
       ELSE /\ GITHUB_TOKEN = << >>
            /\ RELEASE_TAG = << >>
            /\ releases = << >>
            /\ mergePc = "idle"
            /\ releaseNotes = << >>
            /\ allReleasesFound = TRUE
            /\ mergedChangelog = Null
            /\ requests = << >>
            /\ runsDone = 0
    /\ IF running = "index" THEN TRUE
       ELSE /\ gradle = << >>
            /\ gitHead = "branch"
            /\ indexArgs = << >>
            /\ shellVars = << >>
            /\ indexPc = "idle"
            /\ SUB_PROJECTS = << >>
            /\ indexOut = << >>
            /\ indexExit = -1

Init ==
    /\ RELEASE_VERSION \in ReleaseVersions
    /\ NEXT_VERSION \in NextVersions
    /\ KESTRA_VERSION \in KestraVersions
    /\ DRY_RUN \in BOOLEAN
    /\ pc = "checkKestraVersion"
    /\ CURRENT_VERSION = Empty
    /\ exitCode = -1
    /\ diag = "none"
    /\ ops = << >>
    /\ \E ver \in RecordedVersions :
           gradleProperties = [version |-> ver, kestraVersion |-> Line(<<"0", ".", "9", ".", "0">>)]
    /\ HEAD = DEFAULT_BRANCH
    /\ \E lb \in AtMostOne({BranchOfLine(l) : l \in {k \in Lines : StartsWith(RELEASE_VERSION, k)}}) :
           localBranches = {DEFAULT_BRANCH} \cup lb
    /\ localTags \in AtMostOne({<<"v">> \o RELEASE_VERSION})
    /\ localCommits = << >>
    /\ \E rb \in AtMostOne({BranchOfLine(l) : l \in {k \in Lines : StartsWith(RELEASE_VERSION, k)}}) :
           remoteBranches = {DEFAULT_BRANCH} \cup rb
    /\ remoteTags \in AtMostOne({<<"v">> \o RELEASE_VERSION})
    /\ pushes = << >>
    /\ remoteUrl = "plain"
    /\ repo0 = RepoState
    /\ Idle("release")

(* ---------------------------------------------------------------------- *)
(* Values the script computes                                              *)
(* ---------------------------------------------------------------------- *)
CURRENT_BASE_VERSION == StripSnapshot(CURRENT_VERSION)

CURRENT_MAJOR == CutDot(CURRENT_BASE_VERSION, 1)

CURRENT_MINOR == CutDot(CURRENT_BASE_VERSION, 2)

RELEASE_MAJOR == CutDot(RELEASE_VERSION, 1)

RELEASE_MINOR == CutDot(RELEASE_VERSION, 2)

RELEASE_TYPE ==
    IF NEXT_VERSION = Empty THEN "PATCH"
    ELSE IF MatchesMajor(RELEASE_VERSION) THEN "MAJOR"
    ELSE IF MatchesMinor(RELEASE_VERSION) THEN "MINOR"
    ELSE "UNKNOWN"

TAG == <<"v">> \o RELEASE_VERSION

BASE_VERSION == GrepBase(RELEASE_VERSION)

RELEASE_BRANCH == <<"releases/v">> \o BASE_VERSION.text \o <<".x">>

Holds(rel, x, y) ==
    CASE rel = ">" -> x > y
      [] rel = ">=" -> x >= y
      [] rel = "==" -> x = y

(* one (( a rel b )) comparison: "abort" when an operand is an unset       *)
(* variable (set -u), "false" on a syntax error, else the comparison       *)
Compare(a, rel, b) ==
    LET x == Arith(a)
        y == Arith(b)
    IN  IF x.kind = "unbound" THEN "abort"
        ELSE IF x.kind = "syntax" THEN "false"
        ELSE IF y.kind = "unbound" THEN "abort"
        ELSE IF y.kind = "syntax" THEN "false"
        ELSE IF Holds(rel, x.val, y.val) THEN "true" ELSE "false"

(* (( RELEASE_MAJOR > CURRENT_MAJOR )) ||                                  *)
(* (( RELEASE_MAJOR == CURRENT_MAJOR && RELEASE_MINOR minorRel CURRENT_MINOR )) *)
(* the comparison with the major numbers left out *)
FutureMinor_MinorOnly(minorRel) == Compare(RELEASE_MINOR, minorRel, CURRENT_MINOR)

FutureMinor(minorRel) ==
    LET first == Compare(RELEASE_MAJOR, ">", CURRENT_MAJOR)
        same == Compare(RELEASE_MAJOR, "==", CURRENT_MAJOR)
        minor == Compare(RELEASE_MINOR, minorRel, CURRENT_MINOR)
    IN  IF first # "false" THEN first
        ELSE IF same # "true" THEN same
        ELSE minor

(* Coherence without the MAJOR/MINOR comparison against the snapshot base *)
Coherence_NoMinorCheck ==
    IF NEXT_VERSION # Empty THEN "ok"
    ELSE LET r == IF EndsWithSnapshot(CURRENT_VERSION)
                  THEN FutureMinor(">=") ELSE FutureMinor(">")
         IN  IF r = "true" THEN "reject" ELSE IF r = "abort" THEN "abort" ELSE "ok"

(* Coherence with the snapshot rule as lenient as the stable rule *)
Coherence_SnapshotStrictlyGreater ==
    IF NEXT_VERSION # Empty THEN
        IF EndsWithSnapshot(CURRENT_VERSION) /\ RELEASE_VERSION # CURRENT_BASE_VERSION
        THEN "reject" ELSE "ok"
    ELSE LET r == FutureMinor(">")
         IN  IF r = "true" THEN "reject" ELSE IF r = "abort" THEN "abort" ELSE "ok"

(* Coherence with the stable rule as strict as the snapshot rule *)
Coherence_StableGreaterOrEqual ==
    IF NEXT_VERSION # Empty THEN
        IF EndsWithSnapshot(CURRENT_VERSION) /\ RELEASE_VERSION # CURRENT_BASE_VERSION
        THEN "reject" ELSE "ok"
    ELSE LET r == FutureMinor(">=")
         IN  IF r = "true" THEN "reject" ELSE IF r = "abort" THEN "abort" ELSE "ok"

(* outcome of the coherence section: "ok", "reject" (exit 1 with a        *)
(* message) or "abort" (the shell stops on an unbound variable)            *)
Coherence ==
    IF NEXT_VERSION # Empty THEN
        IF EndsWithSnapshot(CURRENT_VERSION) /\ RELEASE_VERSION # CURRENT_BASE_VERSION
        THEN "reject" ELSE "ok"
    ELSE LET r == IF EndsWithSnapshot(CURRENT_VERSION)
                  THEN FutureMinor(">=") ELSE FutureMinor(">")
         IN  IF r = "true" THEN "reject" ELSE IF r = "abort" THEN "abort" ELSE "ok"

(* ---------------------------------------------------------------------- *)
(* Steps of the script                                                     *)
(* ---------------------------------------------------------------------- *)
Exit(code, message) ==
    /\ pc' = "done"
    /\ exitCode' = code
    /\ diag' = message

Goto(label) ==
    /\ pc' = label
    /\ UNCHANGED <<exitCode, diag>>

Did(cmd, arg, ok) == ops' = Append(ops, [cmd |-> cmd, arg |-> arg, ok |-> ok])

CheckKestraVersion ==
    /\ pc = "checkKestraVersion"
    /\ IF KESTRA_VERSION # Empty /\ EndsWithDashSnapshot(KESTRA_VERSION)
       THEN Exit(1, "InvalidKestraVersion")
       ELSE Goto("checkNextVersion")
    /\ UNCHANGED <<inputs, outsideRelease, CURRENT_VERSION, ops, localRepo, remoteRepo, repo0>>

(* CheckNextVersion with the suffix test left out *)
CheckNextVersion_NoSuffixTest ==
    /\ pc = "checkNextVersion"
    /\ Goto("readCurrentVersion")
    /\ UNCHANGED <<inputs, outsideRelease, CURRENT_VERSION, ops, localRepo, remoteRepo, repo0>>

CheckNextVersion ==
    /\ pc = "checkNextVersion"
    /\ IF NEXT_VERSION # Empty /\ ~EndsWithDashSnapshot(NEXT_VERSION)
       THEN Exit(1, "InvalidNextVersion")
       ELSE Goto("readCurrentVersion")
    /\ UNCHANGED <<inputs, outsideRelease, CURRENT_VERSION, ops, localRepo, remoteRepo, repo0>>

ReadCurrentVersion ==
    /\ pc = "readCurrentVersion"
    /\ CURRENT_VERSION' = IF gradleProperties.version.present
                          THEN gradleProperties.version.value ELSE Empty
    /\ Did("readGradleProperties", Empty, TRUE)
    /\ Goto("checkCoherence")
    /\ UNCHANGED <<inputs, outsideRelease, localRepo, remoteRepo, repo0>>

(* CheckCoherence letting every version through *)
CheckCoherence_Skipped ==
    /\ pc = "checkCoherence"
    /\ Goto("checkReleaseType")
    /\ UNCHANGED <<inputs, outsideRelease, CURRENT_VERSION, ops, localRepo, remoteRepo, repo0>>

CheckCoherence ==
    /\ pc = "checkCoherence"
    /\ CASE Coherence = "reject" ->
                Exit(1, IF NEXT_VERSION # Empty THEN "InconsistentMinor" ELSE "InvalidPatch")
         [] Coherence = "abort" -> Exit(1, "UnboundVariable")
         [] OTHER -> Goto("checkReleaseType")
    /\ UNCHANGED <<inputs, outsideRelease, CURRENT_VERSION, ops, localRepo, remoteRepo, repo0>>

(* CheckReleaseType ending an unknown release type with status 0 *)
CheckReleaseType_ExitZero ==
    /\ pc = "checkReleaseType"
    /\ IF RELEASE_TYPE = "UNKNOWN"
       THEN Exit(0, "UnknownReleaseType")
       ELSE Goto("setRemoteUrl")
    /\ UNCHANGED <<inputs, outsideRelease, CURRENT_VERSION, ops, localRepo, remoteRepo, repo0>>

CheckReleaseType ==
    /\ pc = "checkReleaseType"
    /\ IF RELEASE_TYPE = "UNKNOWN"
       THEN Exit(1, "UnknownReleaseType")
       ELSE Goto("setRemoteUrl")
    /\ UNCHANGED <<inputs, outsideRelease, CURRENT_VERSION, ops, localRepo, remoteRepo, repo0>>

(* exit statuses git gives when a push fails: 1 rejected, 128 fatal *)
PushFailures == {1, 128}

(* version= lines a maintenance branch can carry when it is checked out:  *)
(* the snapshot it was cut from, an earlier patch, the version being       *)
(* released (a rerun), or no such line                                     *)
BranchVersions ==
    { Line(BASE_VERSION.text \o <<".", "0">> \o SNAPSHOT_SUFFIX),
      Line(BASE_VERSION.text \o <<".", "0">>),
      Line(RELEASE_VERSION),
      NoLine }

SetRemoteUrl ==
    /\ pc = "setRemoteUrl"
    /\ \E GITHUB_PAT \in BOOLEAN :
           IF GITHUB_PAT
           THEN remoteUrl' = "authed" /\ Did("remoteSetUrl", Empty, TRUE)
           ELSE UNCHANGED <<remoteUrl, ops>>
    /\ Goto("computeReleaseBranch")
    /\ UNCHANGED <<inputs, outsideRelease, CURRENT_VERSION, localRepo, remoteBranches, remoteTags, pushes, repo0>>

(* BASE_VERSION=$(echo ... | grep -Eo ...) : set -e -o pipefail stop the  *)
(* script when grep finds no match                                         *)
ComputeReleaseBranch ==
    /\ pc = "computeReleaseBranch"
    /\ IF BASE_VERSION.matched
       THEN Goto("detectDefaultBranch")
       ELSE Exit(1, "CommandFailed")
    /\ UNCHANGED <<inputs, outsideRelease, CURRENT_VERSION, ops, localRepo, remoteRepo, repo0>>

DetectDefaultBranch ==
    /\ pc = "detectDefaultBranch"
    /\ \E ok \in BOOLEAN :
           /\ Did("remoteShow", Empty, ok)
           /\ IF ok THEN Goto("checkTag") ELSE Exit(1, "CommandFailed")
    /\ UNCHANGED <<inputs, outsideRelease, CURRENT_VERSION, localRepo, remoteRepo, repo0>>

(* CheckTag with the git rev-parse test left out *)
CheckTag_NoTagTest ==
    /\ pc = "checkTag"
    /\ IF NEXT_VERSION = Empty
       THEN Goto("patchLsRemote")
       ELSE Goto("checkoutDefault")
    /\ UNCHANGED <<inputs, outsideRelease, CURRENT_VERSION, ops, localRepo, remoteRepo, repo0>>

CheckTag ==
    /\ pc = "checkTag"
    /\ IF TAG \in localTags
       THEN Exit(1, "TagExists")
       ELSE IF NEXT_VERSION = Empty
            THEN Goto("patchLsRemote")
            ELSE Goto("checkoutDefault")
    /\ UNCHANGED <<inputs, outsideRelease, CURRENT_VERSION, ops, localRepo, remoteRepo, repo0>>

(* ------------------------------ PATCH --------------------------------- *)

(* git ls-remote --heads origin "$RELEASE_BRANCH" &>/dev/null exits 0     *)
(* whenever the remote answered, whether a ref matched or not              *)
LsRemoteStatus(answered, branch) == IF answered THEN 0 ELSE 128

PatchLsRemote ==
    /\ pc = "patchLsRemote"
    /\ \E answered \in BOOLEAN :
           /\ Did("lsRemote", RELEASE_BRANCH, answered)
           /\ IF LsRemoteStatus(answered, RELEASE_BRANCH) # 0
              THEN Exit(1, "BranchMissing")
              ELSE Goto("patchCheckout")
    /\ UNCHANGED <<inputs, outsideRelease, CURRENT_VERSION, localRepo, remoteRepo, repo0>>

(* git checkout "$RELEASE_BRANCH": a local branch, or a remote-tracking   *)
(* branch of that name known to the clone, else "pathspec did not match"   *)
PatchCheckout ==
    /\ pc = "patchCheckout"
    /\ \E tracked \in BOOLEAN, ver \in BranchVersions :
           LET known == \/ RELEASE_BRANCH \in localBranches
                        \/ tracked /\ RELEASE_BRANCH \in remoteBranches
           IN  IF known
               THEN /\ HEAD' = RELEASE_BRANCH
                    /\ localBranches' = localBranches \cup {RELEASE_BRANCH}
                    /\ gradleProperties' = [gradleProperties EXCEPT !.version = ver]
                    /\ Did("checkout", RELEASE_BRANCH, TRUE)
                    /\ Goto("patchPull")
               ELSE /\ Did("checkout", RELEASE_BRANCH, FALSE)
                    /\ Exit(1, "CommandFailed")
                    /\ UNCHANGED <<HEAD, localBranches, gradleProperties>>
    /\ UNCHANGED <<inputs, outsideRelease, CURRENT_VERSION, localTags, localCommits, remoteRepo, repo0>>

PatchPull ==
    /\ pc = "patchPull"
    /\ \E net \in BOOLEAN :
           LET ok == net /\ RELEASE_BRANCH \in remoteBranches
           IN  /\ Did("pull", RELEASE_BRANCH, ok)
               /\ IF ok THEN Goto("patchCommit") ELSE Exit(1, "CommandFailed")
    /\ UNCHANGED <<inputs, outsideRelease, CURRENT_VERSION, localRepo, remoteRepo, repo0>>

(* sed -i "s/^version=.*/version=$RELEASE_VERSION/" and the kestraVersion *)
(* override: a line that is absent stays absent                            *)
EditedProperties ==
    LET v == IF gradleProperties.version.present
             THEN Line(RELEASE_VERSION) ELSE gradleProperties.version
        k == IF KESTRA_VERSION # Empty /\ gradleProperties.kestraVersion.present
             THEN Line(KESTRA_VERSION) ELSE gradleProperties.kestraVersion
    IN  [version |-> v, kestraVersion |-> k]

(* sed, git add, git commit: the commit fails when nothing changed *)
PatchCommit ==
    /\ pc = "patchCommit"
    /\ gradleProperties' = EditedProperties
    /\ IF EditedProperties # gradleProperties
       THEN /\ localCommits' = Append(localCommits,
                                      [branch |-> HEAD, content |-> EditedProperties])
            /\ Did("commit", HEAD, TRUE)
            /\ Goto("patchTag")
       ELSE /\ Did("commit", HEAD, FALSE)
            /\ Exit(1, "CommandFailed")
            /\ UNCHANGED localCommits
    /\ UNCHANGED <<inputs, outsideRelease, CURRENT_VERSION, HEAD, localBranches, localTags, remoteRepo, repo0>>

(* PatchTag going on to the tag push, the branch push left out *)
PatchTag_SkipBranchPush ==
    /\ pc = "patchTag"
    /\ IF DRY_RUN
       THEN /\ Exit(0, "PatchCompleted")
            /\ UNCHANGED <<localTags, ops>>
       ELSE /\ localTags' = localTags \cup {TAG}
            /\ Did("tag", TAG, TRUE)
            /\ Goto("patchPushTag")
    /\ UNCHANGED <<inputs, outsideRelease, CURRENT_VERSION, gradleProperties, HEAD, localBranches,
                   localCommits, remoteRepo, repo0>>

PatchTag ==
    /\ pc = "patchTag"
    /\ IF DRY_RUN
       THEN /\ Exit(0, "PatchCompleted")
            /\ UNCHANGED <<localTags, ops>>
       ELSE /\ localTags' = localTags \cup {TAG}
            /\ Did("tag", TAG, TRUE)
            /\ Goto("patchPushBranch")
    /\ UNCHANGED <<inputs, outsideRelease, CURRENT_VERSION, gradleProperties, HEAD, localBranches,
                   localCommits, remoteRepo, repo0>>

PatchPushBranch ==
    /\ pc = "patchPushBranch"
    /\ \E ok \in BOOLEAN, rc \in PushFailures :
           /\ Did("push", RELEASE_BRANCH, ok)
           /\ IF ok
              THEN /\ remoteBranches' = remoteBranches \cup {RELEASE_BRANCH}
                   /\ pushes' = Append(pushes, [ref |-> RELEASE_BRANCH, commits |-> localCommits])
                   /\ Goto("patchPushTag")
              ELSE /\ Exit(rc, "CommandFailed")
                   /\ UNCHANGED <<remoteBranches, pushes>>
    /\ UNCHANGED <<inputs, outsideRelease, CURRENT_VERSION, localRepo, remoteTags, remoteUrl, repo0>>

PatchPushTag ==
    /\ pc = "patchPushTag"
    /\ \E net \in BOOLEAN, rc \in PushFailures :
           LET ok == net /\ TAG \notin remoteTags
           IN  /\ Did("push", TAG, ok)
               /\ IF ok
                  THEN /\ remoteTags' = remoteTags \cup {TAG}
                       /\ pushes' = Append(pushes, [ref |-> TAG, commits |-> localCommits])
                       /\ Exit(0, "PatchCompleted")
                  ELSE /\ Exit(IF net THEN 1 ELSE rc, "CommandFailed")
                       /\ UNCHANGED <<remoteTags, pushes>>
    /\ UNCHANGED <<inputs, outsideRelease, CURRENT_VERSION, localRepo, remoteBranches, remoteUrl, repo0>>

(* --------------------------- MAJOR / MINOR ---------------------------- *)

CheckoutDefault ==
    /\ pc = "checkoutDefault"
    /\ HEAD' = DEFAULT_BRANCH
    /\ Did("checkout", DEFAULT_BRANCH, TRUE)
    /\ Goto("pullDefault")
    /\ UNCHANGED <<inputs, outsideRelease, CURRENT_VERSION, gradleProperties, localBranches, localTags,
                   localCommits, remoteRepo, repo0>>

PullDefault ==
    /\ pc = "pullDefault"
    /\ \E ok \in BOOLEAN :
           /\ Did("pull", DEFAULT_BRANCH, ok)
           /\ IF ok THEN Goto("fetchOrigin") ELSE Exit(1, "CommandFailed")
    /\ UNCHANGED <<inputs, outsideRelease, CURRENT_VERSION, localRepo, remoteRepo, repo0>>

FetchOrigin ==
    /\ pc = "fetchOrigin"
    /\ \E ok \in BOOLEAN :
           /\ Did("fetch", Empty, ok)
           /\ IF ok THEN Goto("lsRemoteRelease") ELSE Exit(128, "CommandFailed")
    /\ UNCHANGED <<inputs, outsideRelease, CURRENT_VERSION, localRepo, remoteRepo, repo0>>

(* the remote branch test always finding nothing *)
RemoteHasReleaseBranch_NeverFound(answered) == FALSE

(* git ls-remote --heads origin "$RELEASE_BRANCH" | grep -q "$RELEASE_BRANCH" *)
RemoteHasReleaseBranch(answered) == answered /\ RELEASE_BRANCH \in remoteBranches

LsRemoteRelease ==
    /\ pc = "lsRemoteRelease"
    /\ \E answered \in BOOLEAN :
           /\ Did("lsRemote", RELEASE_BRANCH, answered)
           /\ IF ~RemoteHasReleaseBranch(answered)
              THEN Goto("createReleaseBranch")
              ELSE Goto("returnToDefault")
    /\ UNCHANGED <<inputs, outsideRelease, CURRENT_VERSION, localRepo, remoteRepo, repo0>>

(* git checkout -b "$RELEASE_BRANCH": fatal (128) when the local branch exists *)
CreateReleaseBranch ==
    /\ pc = "createReleaseBranch"
    /\ IF RELEASE_BRANCH \in localBranches
       THEN /\ Did("checkoutNew", RELEASE_BRANCH, FALSE)
            /\ Exit(128, "CommandFailed")
            /\ UNCHANGED <<HEAD, localBranches>>
       ELSE /\ localBranches' = localBranches \cup {RELEASE_BRANCH}
            /\ HEAD' = RELEASE_BRANCH
            /\ Did("checkoutNew", RELEASE_BRANCH, TRUE)
            /\ Goto("pushReleaseBranch")
    /\ UNCHANGED <<inputs, outsideRelease, CURRENT_VERSION, gradleProperties, localTags, localCommits,
                   remoteRepo, repo0>>

PushReleaseBranch ==
    /\ pc = "pushReleaseBranch"
    /\ IF DRY_RUN
       THEN /\ Goto("returnToDefault")
            /\ UNCHANGED <<ops, remoteBranches, pushes>>
       ELSE \E ok \in BOOLEAN, rc \in PushFailures :
                /\ Did("push", RELEASE_BRANCH, ok)
                /\ IF ok
                   THEN /\ remoteBranches' = remoteBranches \cup {RELEASE_BRANCH}
                        /\ pushes' = Append(pushes, [ref |-> RELEASE_BRANCH,
                                                     commits |-> localCommits])
                        /\ Goto("returnToDefault")
                   ELSE /\ Exit(rc, "CommandFailed")
                        /\ UNCHANGED <<remoteBranches, pushes>>
    /\ UNCHANGED <<inputs, outsideRelease, CURRENT_VERSION, localRepo, remoteTags, remoteUrl, repo0>>

(* ReturnToDefault without the checkout of the default branch *)
ReturnToDefault_StayOnBranch ==
    /\ pc = "returnToDefault"
    /\ Goto("gradleRelease")
    /\ UNCHANGED <<inputs, outsideRelease, CURRENT_VERSION, ops, localRepo, remoteRepo, repo0>>

ReturnToDefault ==
    /\ pc = "returnToDefault"
    /\ HEAD' = DEFAULT_BRANCH
    /\ Did("checkout", DEFAULT_BRANCH, TRUE)
    /\ Goto("gradleRelease")
    /\ UNCHANGED <<inputs, outsideRelease, CURRENT_VERSION, gradleProperties, localBranches, localTags,
                   localCommits, remoteRepo, repo0>>

(* ./gradlew release -Prelease.releaseVersion=... -Prelease.newVersion=...: *)
(* commits the release version on the current branch, creates and pushes   *)
(* the tag, then commits and pushes the next version                       *)
GradleRelease ==
    /\ pc = "gradleRelease"
    /\ IF DRY_RUN
       THEN /\ Exit(0, "ReleaseCompleted")
            /\ UNCHANGED <<ops, gradleProperties, localTags, localCommits, remoteTags, pushes>>
       ELSE \E net \in BOOLEAN :
                LET ok == net /\ TAG \notin remoteTags
                    released == [gradleProperties EXCEPT !.version = Line(RELEASE_VERSION)]
                    next == [gradleProperties EXCEPT !.version = Line(NEXT_VERSION)]
                    commits == localCommits \o <<[branch |-> HEAD, content |-> released],
                                                 [branch |-> HEAD, content |-> next]>>
                IN  /\ Did("gradleRelease", HEAD, ok)
                    /\ IF ok
                       THEN /\ gradleProperties' = next
                            /\ localCommits' = commits
                            /\ localTags' = localTags \cup {TAG}
                            /\ remoteTags' = remoteTags \cup {TAG}
                            /\ pushes' = pushes \o <<[ref |-> HEAD, commits |-> commits],
                                                     [ref |-> TAG, commits |-> commits]>>
                            /\ Exit(0, "ReleaseCompleted")
                       ELSE /\ Exit(1, "CommandFailed")
                            /\ UNCHANGED <<gradleProperties, localTags, localCommits,
                                           remoteTags, pushes>>
    /\ UNCHANGED <<inputs, outsideRelease, CURRENT_VERSION, HEAD, localBranches, remoteBranches,
                   remoteUrl, repo0>>

Next ==
    \/ CheckKestraVersion
    \/ CheckNextVersion
    \/ ReadCurrentVersion
    \/ CheckCoherence
    \/ CheckReleaseType
    \/ SetRemoteUrl
    \/ ComputeReleaseBranch
    \/ DetectDefaultBranch
    \/ CheckTag
    \/ PatchLsRemote
    \/ PatchCheckout
    \/ PatchPull
    \/ PatchCommit
    \/ PatchTag
    \/ PatchPushBranch
    \/ PatchPushTag
    \/ CheckoutDefault
    \/ PullDefault
    \/ FetchOrigin
    \/ LsRemoteRelease
    \/ CreateReleaseBranch
    \/ PushReleaseBranch
    \/ ReturnToDefault
    \/ GradleRelease

Spec == Init /\ [][Next]_vars

(* ---------------------------------------------------------------------- *)
(* The comment action: actions/comment-update/src/index.ts                 *)
(* A comment body is a sequence of tokens: the marker, the delimiters of a *)
(* section, a heading, and the characters of the rendered content.         *)
(* ---------------------------------------------------------------------- *)
MaxRuns == 3

Tok(kind, val) == [kind |-> kind, val |-> val]

MARKER == Tok("marker", << >>)

NL == Tok("ws", <<"\n">>)

Whitespace == {" ", "\n"}

Chars(str) == [i \in 1..Len(str) |-> Tok(IF str[i] \in Whitespace THEN "ws" ELSE "text", <<str[i]>>)]

(* "## ${title}" *)
Heading(title) == Tok("heading", title)

(* "<!-- ${titleHash} -->" and "<!-- /${titleHash} -->" *)
Open(titleHash) == Tok("open", titleHash)

Close(titleHash) == Tok("close", titleHash)

charCodeAt(c) == CASE c = "A" -> 65 [] c = "B" -> 66 [] c = "a" -> 97 [] c = "b" -> 98

Base36 == <<"0", "1", "2", "3", "4", "5", "6", "7", "8", "9", "a", "b", "c", "d", "e", "f",
            "g", "h", "i", "j", "k", "l", "m", "n", "o", "p", "q", "r", "s", "t", "u", "v",
            "w", "x", "y", "z">>

RECURSIVE toString36(_)
toString36(n) ==
    IF n < 36 THEN <<Base36[n + 1]>>
    ELSE toString36(n \div 36) \o <<Base36[(n % 36) + 1]>>

padStart(str, len, c) ==
    IF Len(str) >= len THEN str ELSE [i \in 1..(len - Len(str)) |-> c] \o str

(* hash = (hash << 5) - hash + char over the characters; for the titles   *)
(* drawn here the value stays below 2^31, where the 32-bit wrap of << and  *)
(* of >>> 0 leaves it as it is                                             *)
RECURSIVE hashLoop(_, _)
hashLoop(str, hash) ==
    IF str = << >> THEN hash
    ELSE hashLoop(Tail(str), (hash * 32) - hash + charCodeAt(Head(str)))

simpleHash(str) == padStart(toString36(hashLoop(str, 0)), 7, "0")

RECURSIVE trimStart(_)
trimStart(s) == IF s # << >> /\ Head(s).kind = "ws" THEN trimStart(Tail(s)) ELSE s

RECURSIVE trimEnd(_)
trimEnd(s) ==
    IF s # << >> /\ s[Len(s)].kind = "ws" THEN trimEnd(SubSeq(s, 1, Len(s) - 1)) ELSE s

trim(s) == trimEnd(trimStart(s))

includes(s, tok) == \E i \in 1..Len(s) : s[i] = tok

(* position of the first tok at or after from, 0 when there is none *)
indexOf(s, tok, from) ==
    LET at == {i \in from..Len(s) : s[i] = tok}
    IN  IF at = {} THEN 0 ELSE CHOOSE i \in at : \A j \in at : i <= j

(* String.replace(MARKER, ''): the first occurrence only *)
replaceFirst(s, tok) ==
    LET i == indexOf(s, tok, 1)
    IN  IF i = 0 THEN s ELSE SubSeq(s, 1, i - 1) \o SubSeq(s, i + 1, Len(s))

sectionContent_AlwaysHeading(title, content) ==
    <<Open(simpleHash(title)), NL, Heading(title), NL, NL>> \o Chars(content)
    \o <<NL, Close(simpleHash(title))>>

sectionContent(title, content) ==
    LET section == IF trim(Chars(content)) = << >> THEN << >>
                   ELSE <<Heading(title), NL, NL>> \o Chars(content) \o <<NL>>
    IN  <<Open(simpleHash(title)), NL>> \o section \o <<Close(simpleHash(title))>>

(* new RegExp(`<!-- ${titleHash} -->(.*?)<!-- \/${titleHash} -->`, 'gs'):   *)
(* the leftmost opening delimiter and the nearest closing one after it     *)
regExpMatch(s, titleHash) ==
    LET first == indexOf(s, Open(titleHash), 1)
        last == IF first = 0 THEN 0 ELSE indexOf(s, Close(titleHash), first + 1)
    IN  [found |-> last # 0, first |-> first, last |-> last]

Dollar == Tok("text", <<"$">>)

(* the replacement patterns of String.replaceAll with a string as second  *)
(* argument: $$ is a dollar sign, $& the matched text, $1 the first group  *)
RECURSIVE GetSubstitution(_, _, _)
GetSubstitution(replacement, matched, group1) ==
    IF replacement = << >> THEN << >>
    ELSE IF Head(replacement) = Dollar /\ Len(replacement) >= 2
         THEN LET rest == SubSeq(replacement, 3, Len(replacement))
              IN  CASE replacement[2] = Dollar ->
                           <<Dollar>> \o GetSubstitution(rest, matched, group1)
                    [] replacement[2] = Tok("text", <<"&">>) ->
                           matched \o GetSubstitution(rest, matched, group1)
                    [] replacement[2] = Tok("text", <<"1">>) ->
                           group1 \o GetSubstitution(rest, matched, group1)
                    [] OTHER ->
                           <<Dollar>> \o GetSubstitution(Tail(replacement), matched, group1)
         ELSE <<Head(replacement)>> \o GetSubstitution(Tail(replacement), matched, group1)

RECURSIVE replaceAll(_, _, _)
replaceAll(s, titleHash, replacement) ==
    LET m == regExpMatch(s, titleHash)
    IN  IF ~m.found THEN s
        ELSE SubSeq(s, 1, m.first - 1)
             \o GetSubstitution(replacement, SubSeq(s, m.first, m.last),
                                SubSeq(s, m.first + 1, m.last - 1))
             \o replaceAll(SubSeq(s, m.last + 1, Len(s)), titleHash, replacement)

(* position of the first comment whose body includes the marker, 0 for null *)
findComment ==
    LET filter == {i \in 1..Len(comments) : includes(comments[i].body, MARKER)}
    IN  IF filter = {} THEN 0 ELSE CHOOSE i \in filter : \A j \in filter : i <= j

(* the body sent by createComment *)
createdBody(title, content) == <<MARKER, NL>> \o sectionContent(title, content)

(* the body sent by updateComment for a comment read with the given body *)
updatedBody(body, title, content) ==
    LET titleHash == simpleHash(title)
        commentContent == trim(replaceFirst(body, MARKER))
        updated == IF regExpMatch(commentContent, titleHash).found
                   THEN replaceAll(commentContent, titleHash,
                                   sectionContent(title, content))
                   ELSE commentContent \o <<NL, NL>> \o sectionContent(title, content)
    IN  <<MARKER, NL>> \o updated

addComment(title, content) ==
    LET comment == findComment
    IN  IF comment = 0
        THEN comments' = Append(comments,
                 [id |-> Len(comments) + 1, body |-> createdBody(title, content)])
        ELSE comments' = [comments EXCEPT
                 ![comment].body = updatedBody(comments[comment].body, title, content)]

(* titles, two of them with the same hash, and rendered contents: empty,   *)
(* blank, plain, and with the dollar patterns                              *)
Titles == {<<"A">>, <<"A", "a">>, <<"B", "B">>}

Contents ==
    {<< >>, <<" ">>, <<"a">>, <<"$", "$">>, <<"$", "&">>, <<"a", "$", "1">>}

(* the job summary of a run, which starts empty: the section               *)
(* "## title\n\ncontent\n" when add-summary is set and the content not blank *)
writeSummary(summaryInput, title, renderer) ==
    IF summaryInput /\ trim(Chars(renderer)) # << >>
    THEN << <<Heading(title), NL, NL>> \o Chars(renderer) \o <<NL>> >>
    ELSE << >>

(* one run of the action: render, then add or update the comment, then    *)
(* write the job summary of this run, which starts empty                   *)
run ==
    /\ Len(runLog) < MaxRuns
    /\ \E title \in Titles, renderer \in Contents, summaryInput \in BOOLEAN :
           /\ addComment(title, renderer)
           /\ runLog' = Append(runLog, [title |-> title, content |-> renderer])
           /\ addSummary' = summaryInput
           /\ summary' = writeSummary(summaryInput, title, renderer)
    /\ UNCHANGED <<outsideComments, concurrentRuns>>

(* a pull request with or without a comment written by somebody else *)
InitComment ==
    /\ Idle("comment")
    /\ comments \in {<< >>, <<[id |-> 1, body |-> Chars(<<"a">>)]>>}
    /\ runLog = << >>
    /\ addSummary = FALSE
    /\ summary = << >>
    /\ workers = << >>

NextComment == run

SpecComment == InitComment /\ [][NextComment]_vars

(* ---------------------------------------------------------------------- *)
(* Two instances of the comment action on one pull request: the calls of   *)
(* _addComment to the GitHub API are the atomic steps                      *)
(* ---------------------------------------------------------------------- *)
Instances == {1, 2}

(* await this._findComment(): the listing of the comments as they are now *)
listComments(w) ==
    /\ workers[w].pc = "findComment"
    /\ LET filter == findComment
       IN  workers' = [workers EXCEPT
               ![w].comment = IF filter = 0 THEN [id |-> 0, body |-> << >>]
                              ELSE comments[filter],
               ![w].pc = IF filter = 0 THEN "createComment" ELSE "updateComment"]
    /\ UNCHANGED <<outsideComments, commentUpdate>>

createComment(w) ==
    /\ workers[w].pc = "createComment"
    /\ comments' = Append(comments,
           [id |-> Len(comments) + 1,
            body |-> createdBody(workers[w].title, workers[w].content)])
    /\ workers' = [workers EXCEPT ![w].pc = "done", ![w].summary =
           writeSummary(workers[w].addSummary, workers[w].title, workers[w].content)]
    /\ UNCHANGED <<outsideComments, runLog, addSummary, summary>>

(* the body is computed from the comment as it was listed *)
updateComment(w) ==
    /\ workers[w].pc = "updateComment"
    /\ comments' = [comments EXCEPT ![workers[w].comment.id].body =
           updatedBody(workers[w].comment.body, workers[w].title, workers[w].content)]
    /\ workers' = [workers EXCEPT ![w].pc = "done", ![w].summary =
           writeSummary(workers[w].addSummary, workers[w].title, workers[w].content)]
    /\ UNCHANGED <<outsideComments, runLog, addSummary, summary>>

(* a pull request without comment, with a comment of somebody else, or    *)
(* with the comment of an earlier run, and two instances whose titles     *)
(* differ                                                                  *)
InitConcurrent ==
    /\ Idle("comment")
    /\ comments \in {<< >>, <<[id |-> 1, body |-> Chars(<<"a">>)]>>,
                     <<[id |-> 1, body |-> createdBody(<<"A">>, <<"a">>)]>>}
    /\ runLog = << >>
    /\ addSummary = FALSE
    /\ summary = << >>
    /\ \E t1, t2 \in Titles, c1, c2 \in Contents, s1, s2 \in BOOLEAN :
           /\ t1 # t2
           /\ workers =
                  [w \in Instances |->
                      [pc |-> "findComment",
                       title |-> IF w = 1 THEN t1 ELSE t2,
                       content |-> IF w = 1 THEN c1 ELSE c2,
                       addSummary |-> IF w = 1 THEN s1 ELSE s2,
                       comment |-> [id |-> 0, body |-> << >>],
                       summary |-> << >>]]

NextConcurrent ==
    \E w \in Instances : listComments(w) \/ createComment(w) \/ updateComment(w)

SpecConcurrent == InitConcurrent /\ [][NextConcurrent]_vars

(* ---------------------------------------------------------------------- *)
(* _fetchUnreleasedCommits: one step for each GitHub call, which fails or  *)
(* answers                                                                 *)
(* ---------------------------------------------------------------------- *)
Commit(sha, message, name, login, date, committerDate) ==
    [sha |-> sha, message |-> message, name |-> name, login |-> login,
     date |-> date, committerDate |-> committerDate]

(* the answers of compareCommits: no commits field, no commit, commits    *)
(* with and without a version message                                     *)
CompareData ==
    { Null,
      Some(<< >>),
      Some(<< Commit("s1", Some(<<"fix:", "a", "\n", "b">>), Some("n"), Some("l"),
                     Some("d1"), Some("d2")),
              Commit("s2", Some(<<" ", "Chore(version):", "Bump", "to", "1">>), Null,
                     Some("l"), Some("d1"), Null),
              Commit("s3", Null, Null, Null, Null, Some("d2")) >>),
      Some(<< Commit("s4", Some(<<"chore(version):", "update", "snapshot">>), Null, Null,
                     Null, Null),
              Commit("s5", Some(<<"chore(version):", "update", "to", "version", "2">>),
                     Some("n"), Null, Null, Null) >>) }

(* the commits returned: those whose trimmed, lowercased message does not  *)
(* start with one of the version prefixes, mapped to sha, first line of    *)
(* the message, author and date                                            *)
unreleasedCommits(commits) ==
    LET toLowerCase(words) ==
            [i \in 1..Len(words) |->
                CASE words[i] = "Chore(version):" -> "chore(version):"
                  [] words[i] = "Bump" -> "bump"
                  [] OTHER -> words[i]]
        msg(c) ==
            LET trimmed == trim(Chars(Coalesce(c.message, Some(<< >>)).value))
            IN  toLowerCase([i \in 1..Len(trimmed) |-> trimmed[i].val[1]])
        versionMessage(c) ==
            \/ StartsWith(msg(c), <<"chore(version):", "bump", "to">>)
            \/ StartsWith(msg(c), <<"chore(version):", "update", "snapshot">>)
            \/ StartsWith(msg(c), <<"chore(version):", "update", "to", "version">>)
        firstLine(words) ==
            LET at == {i \in 1..Len(words) : words[i] = "\n"}
            IN  IF at = {} THEN words
                ELSE SubSeq(words, 1, (CHOOSE i \in at : \A j \in at : i <= j) - 1)
        kept == SelectSeq(commits, LAMBDA c : ~versionMessage(c))
    IN  [i \in 1..Len(kept) |->
            [sha |-> kept[i].sha,
             message |-> IF kept[i].message.null THEN Null
                         ELSE Some(firstLine(kept[i].message.value)),
             author |-> Coalesce(kept[i].name, Coalesce(kept[i].login, Some("unknown"))),
             date |-> Coalesce(kept[i].date, kept[i].committerDate)]]

Call(api, base, head, ok) ==
    calls' = Append(calls, [api |-> api, base |-> base, head |-> head, ok |-> ok])

Continue(next) == fetchPc' = next /\ returned' = returned

Return(tag, commits) ==
    /\ fetchPc' = "done"
    /\ returned' = [latestTag |-> tag, commits |-> commits]

(* an error that leaves the function *)
outerCatch_Rethrow == fetchPc' = "thrown" /\ returned' = returned

(* the catch of the whole body *)
outerCatch == Return(Coalesce(latestTag, Some(<<"unknown">>)).value, << >>)

(* if (!latestTag) return { latestTag: "unknown", commits: [] } *)
afterLatestTag(tag) ==
    IF tag.null \/ tag.value = << >>
    THEN Return(<<"unknown">>, << >>)
    ELSE Continue("reposGet")

getLatestRelease ==
    /\ fetchPc = "getLatestRelease"
    /\ \E ok \in BOOLEAN, tag_name \in {Null, Some(<< >>), Some(<<"v1">>)} :
           /\ Call("getLatestRelease", << >>, << >>, ok)
           /\ IF ok
              THEN latestTag' = tag_name /\ afterLatestTag(tag_name)
              ELSE latestTag' = latestTag /\ Continue("listTags")
    /\ UNCHANGED <<defaultBranch, compare, outsideFetch>>

listTags ==
    /\ fetchPc = "listTags"
    /\ \E ok \in BOOLEAN, data \in {<< >>, <<Null>>, <<Some(<<"v2">>), Some(<<"v1">>)>>} :
           /\ Call("listTags", << >>, << >>, ok)
           /\ IF ok
              THEN LET tag == IF Len(data) > 0 THEN data[1] ELSE latestTag
                   IN  latestTag' = tag /\ afterLatestTag(tag)
              ELSE latestTag' = latestTag /\ outerCatch
    /\ UNCHANGED <<defaultBranch, compare, outsideFetch>>

reposGet ==
    /\ fetchPc = "reposGet"
    /\ \E ok \in BOOLEAN, default_branch \in {Null, Some(<<"main">>), Some(<<"master">>), Some(<<"develop">>)} :
           /\ Call("get", << >>, << >>, ok)
           /\ defaultBranch' = IF ok THEN Coalesce(default_branch, Some(<<"main">>)).value
                               ELSE <<"main">>
    /\ Continue("compareCommits")
    /\ UNCHANGED <<latestTag, compare, outsideFetch>>

(* the catch around the two comparisons *)
catchCompare ==
    IF defaultBranch = <<"main">>
    THEN Continue("compareCommitsMaster")
    ELSE Return(Coalesce(latestTag, Some(<<"unknown">>)).value, << >>)

(* from if (!compare?.data?.commits) to the end *)
afterCompare(data) ==
    IF data.null
    THEN Return(latestTag.value, << >>)
    ELSE Return(latestTag.value, unreleasedCommits(data.value))

compareCommits ==
    /\ fetchPc = "compareCommits"
    /\ \E ok \in BOOLEAN, data \in CompareData :
           /\ Call("compareCommits", <<"refs/tags/">> \o latestTag.value, defaultBranch, ok)
           /\ IF ok
              THEN /\ compare' = data
                   /\ IF data.null \/ data.value = << >>
                      THEN Continue("compareCommitsAgain")
                      ELSE afterCompare(data)
              ELSE compare' = compare /\ catchCompare
    /\ UNCHANGED <<latestTag, defaultBranch, outsideFetch>>

compareCommitsAgain ==
    /\ fetchPc = "compareCommitsAgain"
    /\ \E ok \in BOOLEAN, data \in CompareData :
           /\ Call("compareCommits", latestTag.value, defaultBranch, ok)
           /\ IF ok
              THEN compare' = data /\ afterCompare(data)
              ELSE compare' = compare /\ catchCompare
    /\ UNCHANGED <<latestTag, defaultBranch, outsideFetch>>

compareCommitsMaster ==
    /\ fetchPc = "compareCommitsMaster"
    /\ \E ok \in BOOLEAN, data \in CompareData :
           /\ Call("compareCommits", latestTag.value, <<"master">>, ok)
           /\ IF ok
              THEN compare' = data /\ afterCompare(data)
              ELSE compare' = compare
                   /\ Return(Coalesce(latestTag, Some(<<"unknown">>)).value, << >>)
    /\ UNCHANGED <<latestTag, defaultBranch, outsideFetch>>

InitFetch ==
    /\ Idle("fetch")
    /\ fetchPc = "getLatestRelease"
    /\ latestTag = Null
    /\ defaultBranch = <<"main">>
    /\ compare = Null
    /\ calls = << >>
    /\ returned = [latestTag |-> << >>, commits |-> << >>]

NextFetch ==
    \/ getLatestRelease
    \/ listTags
    \/ reposGet
    \/ compareCommits
    \/ compareCommitsAgain
    \/ compareCommitsMaster

SpecFetch == InitFetch /\ [][NextFetch]_vars

(* ---------------------------------------------------------------------- *)
(* github-release-note-merge.js: one step for each answer of GitHub        *)
(* ---------------------------------------------------------------------- *)
MaxMergeRuns == 2

SOURCE_REPOS ==
    << [repo |-> "kestra", title |-> "Kestra Open-Source Edition Changes"],
       [repo |-> "kestra-ee", title |-> "Kestra Enterprise Edition Changes"] >>

TARGET_REPO_CONFIG == [repo |-> "kestra"]

NoRelease == [exists |-> FALSE, body |-> << >>]

Release(body) == [exists |-> TRUE, body |-> body]

(* the answers to a request for the release of the tag: found or not       *)
(* found, or a failure of the server, of the rate limit or of the network  *)
Statuses(repo) == IF releases[repo].exists THEN {200, 500} ELSE {404, 500}

(* error.message.includes('404 Not Found') on the message that             *)
(* githubApiRequest builds from response.status and response.statusText    *)
notFound_Never(status) == FALSE

notFound(status) ==
    LET statusText == CASE status = 404 -> "Not Found"
                        [] status = 500 -> "Internal Server Error"
                        [] OTHER -> "OK"
    IN  <<status, statusText>> = <<404, "Not Found">>

Request(method, repo, purpose, status, body) ==
    [run |-> runsDone + 1, method |-> method, repo |-> repo, purpose |-> purpose,
     status |-> status, body |-> body]

(* releaseNotes.filter(note => note !== null).join('\n\n---\n\n') *)
mergedMarkdown(notes) ==
    LET kept == SelectSeq(notes, LAMBDA n : ~n.note.null)
        join[i \in 0..Len(kept)] ==
            IF i = 0 THEN << >>
            ELSE IF i = 1 THEN kept[1].note.value
            ELSE join[i - 1] \o <<"\n\n---\n\n">> \o kept[i].note.value
    IN  join[Len(kept)]

(* the script returns *)
Finish == mergePc' = "done" /\ runsDone' = runsDone + 1

(* main(): the checks of the environment, then the requests for the        *)
(* releases of the sources, all sent before any answer is awaited          *)
main ==
    /\ mergePc \in {"ready", "done"}
    /\ runsDone < MaxMergeRuns
    /\ IF GITHUB_TOKEN = << >> \/ RELEASE_TAG = << >>
       THEN Finish /\ UNCHANGED <<releaseNotes, allReleasesFound>>
       ELSE /\ mergePc' = "fetching"
            /\ releaseNotes' = [i \in 1..Len(SOURCE_REPOS) |-> [settled |-> FALSE, note |-> Null]]
            /\ allReleasesFound' = TRUE
            /\ runsDone' = runsDone
    /\ UNCHANGED <<GITHUB_TOKEN, RELEASE_TAG, releases, mergedChangelog, requests, outsideMerge>>

(* the answer for one source; after the last one, Promise.all resolves and *)
(* getMergedChangelog returns to main                                      *)
fetchReleaseNote(i) ==
    /\ mergePc = "fetching"
    /\ ~releaseNotes[i].settled
    /\ \E status \in Statuses(SOURCE_REPOS[i].repo) :
           LET repo == SOURCE_REPOS[i].repo
               note == IF status = 200
                       THEN Some(<<"## ", SOURCE_REPOS[i].title, "\n\n">>
                                 \o releases[repo].body)
                       ELSE Null
               found == allReleasesFound /\ (status = 200 \/ ~notFound(status))
               notes == [releaseNotes EXCEPT ![i] = [settled |-> TRUE, note |-> note]]
               merged == IF found THEN Some(mergedMarkdown(notes)) ELSE Null
           IN  /\ requests' = Append(requests, Request("GET", repo, "source", status, << >>))
               /\ releaseNotes' = notes
               /\ allReleasesFound' = found
               /\ IF \E j \in 1..Len(notes) : ~notes[j].settled
                  THEN UNCHANGED <<mergePc, mergedChangelog, runsDone>>
                  ELSE /\ mergedChangelog' = merged
                       /\ IF merged.null \/ merged.value = << >>
                          THEN Finish
                          ELSE mergePc' = "getRelease" /\ runsDone' = runsDone
    /\ UNCHANGED <<GITHUB_TOKEN, RELEASE_TAG, releases, outsideMerge>>

(* updateReleaseNotes: the request for the release of the target; an       *)
(* existing release has an id                                              *)
getRelease ==
    /\ mergePc = "getRelease"
    /\ \E status \in Statuses(TARGET_REPO_CONFIG.repo) :
           /\ requests' = Append(requests,
                  Request("GET", TARGET_REPO_CONFIG.repo, "target", status, << >>))
           /\ IF status = 200 THEN mergePc' = "updateRelease" /\ runsDone' = runsDone
              ELSE Finish
    /\ UNCHANGED <<GITHUB_TOKEN, RELEASE_TAG, releases, releaseNotes, allReleasesFound,
                   mergedChangelog, outsideMerge>>

(* updateReleaseNotes: the PATCH of the body *)
updateRelease ==
    /\ mergePc = "updateRelease"
    /\ \E status \in {200, 500} :
           /\ requests' = Append(requests,
                  Request("PATCH", TARGET_REPO_CONFIG.repo, "target", status,
                          mergedChangelog.value))
           /\ releases' = IF status = 200
                          THEN [releases EXCEPT
                                   ![TARGET_REPO_CONFIG.repo].body = mergedChangelog.value]
                          ELSE releases
    /\ Finish
    /\ UNCHANGED <<GITHUB_TOKEN, RELEASE_TAG, releaseNotes, allReleasesFound,
                   mergedChangelog, outsideMerge>>

InitMerge ==
    /\ Idle("merge")
    /\ GITHUB_TOKEN \in {<< >>, <<"t">>}
    /\ RELEASE_TAG \in {<< >>, <<"v1">>}
    /\ \E oss \in {NoRelease, Release(<<"oss">>)},
          ee \in {NoRelease, Release(<< >>), Release(<<"ee">>)} :
           releases = [repo \in {"kestra", "kestra-ee"} |->
                          IF repo = "kestra" THEN oss ELSE ee]
    /\ mergePc = "ready"
    /\ releaseNotes = << >>
    /\ allReleasesFound = TRUE
    /\ mergedChangelog = Null
    /\ requests = << >>
    /\ runsDone = 0

NextMerge ==
    \/ main
    \/ \E i \in 1..Len(SOURCE_REPOS) : fetchReleaseNote(i)
    \/ getRelease
    \/ updateRelease

SpecMerge == InitMerge /\ [][NextMerge]_vars

(* ---------------------------------------------------------------------- *)
(* The release-indexing scripts: one step for main and one for each call   *)
(* of index; both run under set -euo pipefail                              *)
(* ---------------------------------------------------------------------- *)
MaxProjects == 2

(* [[ $v =~ ^[0-9]+\.[0-9]+\.[0-9]+$ ]] *)
semver_regex_Unanchored(v) ==
    LET f == SplitDot(v)
    IN  Len(f) >= 3 /\ IsDigits(f[1]) /\ IsDigits(f[2]) /\ DigitRun(f[3]) >= 1

semver_regex(v) ==
    LET f == SplitDot(v)
    IN  Len(f) = 3 /\ \A i \in 1..3 : IsDigits(f[i])

(* [ -z "$X" ] && X=null || X="\"$X\"" *)
nullOrQuoted(value) == IF value = << >> THEN <<"null">> ELSE <<"\"">> \o value \o <<"\"">>

(* the properties Gradle prints for a project: a line may be missing, or   *)
(* have nothing after the colon                                            *)
Projects ==
    [ group : {NoLine, Line(<< >>), Line(<<"g">>)},
      archivesBaseName : {Line(<< >>), Line(<<"plugin-ee", "a">>)},
      version : {Line(<<"1", ".", "2", ".", "3">>),
                 Line(<<"1", ".", "2", ".", "3", "-", "SNAPSHOT">>)},
      kestraVersion : {Line(<<"1", ".", "0", ".", "0">>), Line(<<"1", ".", "0">>)} ]

(* index-plugin-release.sh, main: a build without subprojects is indexed   *)
(* as its root project; the arithmetic test of line 81 fails on a list     *)
(* that is not empty and the script goes on to the loop                    *)
main_index ==
    /\ indexPc = "main"
    /\ SUB_PROJECTS' = IF gradle.subprojects = << >> THEN <<0>>
                       ELSE [i \in 1..Len(gradle.subprojects) |-> i]
    /\ indexPc' = "index"
    /\ UNCHANGED <<gradle, gitHead, indexArgs, shellVars, indexOut, indexExit, outsideIndex>>

(* index-plugin-release.sh, index: one call, and the return to main *)
index ==
    /\ indexPc = "index"
    /\ LET P == Head(SUB_PROJECTS)
           project == IF P = 0 THEN gradle.root ELSE gradle.subprojects[P]
           missing == \E name \in {"group", "archivesBaseName", "version", "kestraVersion"} :
                          ~project[name].present
           GROUP == project.group.value
           ARTIFACT == project.archivesBaseName.value
           VERSION == project.version.value
           MIN_CORE == project.kestraVersion.value
           code == IF missing THEN 1
                   ELSE IF gitHead = "detached" THEN 128
                   ELSE IF ~semver_regex(VERSION) \/ ~semver_regex(MIN_CORE) THEN 1
                   ELSE 0
           JSON_STRING == [groupId |-> nullOrQuoted(GROUP),
                           artifactId |-> nullOrQuoted(ARTIFACT),
                           version |-> nullOrQuoted(VERSION),
                           minCoreCompatibilityVersion |-> nullOrQuoted(MIN_CORE),
                           branch |-> gitHead]
           did == IF indexArgs.DRY_RUN = "true" THEN "skip: dry run"
                  ELSE IF \A name \in {"groupId", "artifactId", "version",
                                       "minCoreCompatibilityVersion"} :
                              JSON_STRING[name] # << >>
                       THEN "POST"
                       ELSE "skip: some properties are null"
       IN  /\ indexOut' = IF code = 0
                          THEN Append(indexOut, [project |-> P, did |-> did,
                                                 json |-> JSON_STRING])
                          ELSE indexOut
           /\ indexExit' = IF code # 0 THEN code
                           ELSE IF Len(SUB_PROJECTS) = 1 THEN 0 ELSE indexExit
           /\ indexPc' = IF code # 0 \/ Len(SUB_PROJECTS) = 1 THEN "done" ELSE indexPc
    /\ SUB_PROJECTS' = Tail(SUB_PROJECTS)
    /\ UNCHANGED <<gradle, gitHead, indexArgs, shellVars, outsideIndex>>

(* a checkout on a branch, on a tag, or detached on a commit without tag;  *)
(* a build of its root project alone or of one subproject or more          *)
InitIndex ==
    /\ Idle("index")
    /\ \E root \in Projects, n \in 0..MaxProjects :
           \E subprojects \in [1..n -> Projects] :
               /\ n > 0 => root = [group |-> Line(<< >>),
                                    archivesBaseName |-> Line(<< >>),
                                    version |-> Line(<<"1", ".", "2", ".", "3">>),
                                    kestraVersion |-> Line(<<"1", ".", "0", ".", "0">>)]
               /\ gradle = [root |-> root, subprojects |-> subprojects]
    /\ gitHead \in {"branch", "tag", "detached"}
    /\ indexArgs \in [RELEASE_VERSION : {<< >>}, KESTRA_VERSION : {<< >>},
                      DRY_RUN : {"false", "true"}]
    /\ shellVars = << >>
    /\ indexPc = "main"
    /\ SUB_PROJECTS = << >>
    /\ indexOut = << >>
    /\ indexExit = -1

NextIndex == main_index \/ index

SpecIndex == InitIndex /\ [][NextIndex]_vars

(* the script that takes the release version and the kestra version as    *)
(* arguments, main                                                         *)
main_002 ==
    /\ indexPc = "main_002"
    /\ SUB_PROJECTS' = IF gradle.subprojects = << >> THEN <<0>>
                       ELSE [i \in 1..Len(gradle.subprojects) |-> i]
    /\ indexPc' = "index_002"
    /\ UNCHANGED <<gradle, gitHead, indexArgs, shellVars, indexOut, indexExit, outsideIndex>>

(* the same script, index: RELEASE_VERSION and KESTRA_VERSION are global   *)
(* variables, and the call leaves them as it rewrote them                  *)
index_002 ==
    /\ indexPc = "index_002"
    /\ LET P == Head(SUB_PROJECTS)
           project == IF P = 0 THEN gradle.root ELSE gradle.subprojects[P]
           missing == ~project.group.present \/ ~project.name.present
           GROUP == project.group.value
           ARTIFACT == project.name.value
           RELEASE_VERSION_ == shellVars.RELEASE_VERSION
           KESTRA_VERSION_ == shellVars.KESTRA_VERSION
           code == IF missing THEN 1
                   ELSE IF gitHead = "detached" THEN 128
                   ELSE IF ~semver_regex(RELEASE_VERSION_) \/ ~semver_regex(KESTRA_VERSION_)
                        THEN 1
                   ELSE 0
           LICENSE == IF StartsWith(ARTIFACT, <<"plugin-ee">>) THEN <<"ENTERPRISE">>
                      ELSE <<"OPEN_SOURCE">>
           JSON_STRING == [groupId |-> nullOrQuoted(GROUP),
                           artifactId |-> nullOrQuoted(ARTIFACT),
                           version |-> nullOrQuoted(RELEASE_VERSION_),
                           minCoreCompatibilityVersion |-> nullOrQuoted(KESTRA_VERSION_),
                           branch |-> gitHead,
                           license |-> nullOrQuoted(LICENSE)]
           did == IF indexArgs.DRY_RUN = "true" THEN "skip: dry run"
                  ELSE IF \A name \in {"groupId", "artifactId", "version",
                                       "minCoreCompatibilityVersion"} :
                              JSON_STRING[name] # << >>
                       THEN "POST"
                       ELSE "skip: some properties are null"
       IN  /\ indexOut' = IF code = 0
                          THEN Append(indexOut, [project |-> P, did |-> did,
                                                 json |-> JSON_STRING])
                          ELSE indexOut
           /\ shellVars' = IF code = 0
                           THEN [RELEASE_VERSION |-> JSON_STRING.version,
                                 KESTRA_VERSION |-> JSON_STRING.minCoreCompatibilityVersion]
                           ELSE shellVars
           /\ indexExit' = IF code # 0 THEN code
                           ELSE IF Len(SUB_PROJECTS) = 1 THEN 0 ELSE indexExit
           /\ indexPc' = IF code # 0 \/ Len(SUB_PROJECTS) = 1 THEN "done" ELSE indexPc
    /\ SUB_PROJECTS' = Tail(SUB_PROJECTS)
    /\ UNCHANGED <<gradle, gitHead, indexArgs, outsideIndex>>

InitIndex_002 ==
    /\ Idle("index")
    /\ \E n \in 0..MaxProjects :
           \E root \in [group : {Line(<< >>), Line(<<"g">>)}, name : {Line(<<"a">>)}],
              subprojects \in [1..n -> [group : {NoLine, Line(<< >>), Line(<<"g">>)},
                                        name : {Line(<<"a">>), Line(<<"plugin-ee", "a">>)}]] :
               gradle = [root |-> root, subprojects |-> subprojects]
    /\ gitHead \in {"branch", "tag", "detached"}
    /\ indexArgs \in [RELEASE_VERSION : {<< >>, <<"1", ".", "2", ".", "3">>,
                                         <<"1", ".", "2", ".", "3", "-", "SNAPSHOT">>},
                      KESTRA_VERSION : {<<"1", ".", "0", ".", "0">>, <<"1", ".", "0">>},
                      DRY_RUN : {"false", "true"}]
    /\ shellVars = [RELEASE_VERSION |-> indexArgs.RELEASE_VERSION,
                    KESTRA_VERSION |-> indexArgs.KESTRA_VERSION]
    /\ indexPc = "main_002"
    /\ SUB_PROJECTS = << >>
    /\ indexOut = << >>
    /\ indexExit = -1

NextIndex_002 == main_002 \/ index_002

SpecIndex_002 == InitIndex_002 /\ [][NextIndex_002]_vars

(* ---------------------------------------------------------------------- *)
(* Vocabulary of the properties                                            *)
(* ---------------------------------------------------------------------- *)
Done == pc = "done"

TypeOK ==
    /\ exitCode \in {-1, 0, 1, 128}
    /\ (pc = "done") = (exitCode # -1)
    /\ DEFAULT_BRANCH \in localBranches
    /\ DEFAULT_BRANCH \in remoteBranches

Attempted(cmd) == \E i \in 1..Len(ops) : ops[i].cmd = cmd

Performed(cmd) == \E i \in 1..Len(ops) : ops[i].cmd = cmd /\ ops[i].ok

(* commands that move HEAD or add a branch, a commit or a tag somewhere *)
MutatingCommands == {"checkout", "checkoutNew", "commit", "tag", "push", "gradleRelease"}

NoMutatingCommand == \A i \in 1..Len(ops) : ops[i].cmd \notin MutatingCommands

(* branches, commits and tags of the clone and of the remote are as they *)
(* were when the run started                                              *)
RefsUntouched ==
    /\ localBranches = repo0.localBranches
    /\ localTags = repo0.localTags
    /\ localCommits = repo0.localCommits
    /\ remoteBranches = repo0.remoteBranches
    /\ remoteTags = repo0.remoteTags
    /\ pushes = repo0.pushes

(* no commit, no tag, no new branch and no push was made; a local branch *)
(* that git checkout set up to track an existing remote one is not counted *)
NothingCreated ==
    /\ localCommits = repo0.localCommits
    /\ localTags = repo0.localTags
    /\ remoteBranches = repo0.remoteBranches
    /\ remoteTags = repo0.remoteTags
    /\ pushes = repo0.pushes
    /\ ~Performed("checkoutNew")

PatchMode == NEXT_VERSION = Empty

MajorMinorMode == NEXT_VERSION # Empty

ValidationLabels ==
    {"checkKestraVersion", "checkNextVersion", "readCurrentVersion", "checkCoherence"}

Recorded0 == repo0.gradleProperties.version

RecordedSnapshot0 == Recorded0.present /\ EndsWithDashSnapshot(Recorded0.value)

RecordedStable0 == Recorded0.present /\ ~EndsWithDashSnapshot(Recorded0.value)

RecordedBase0 == SubSeq(Recorded0.value, 1, Len(Recorded0.value) - 2)

(* the version has numeric first and second components *)
HasMajorMinor(s) ==
    LET f == SplitDot(s)
    IN  Len(f) >= 2 /\ IsDigits(f[1]) /\ IsDigits(f[2])

MajorMinorOf(s) == <<NumIn(SplitDot(s)[1], 10), NumIn(SplitDot(s)[2], 10)>>

LexGt(p, q) == p[1] > q[1] \/ (p[1] = q[1] /\ p[2] > q[2])

LexGe(p, q) == LexGt(p, q) \/ p = q

(* MAJOR.MINOR.PATCH with three numeric components, the snapshot suffix allowed *)
IsSemVer(s) ==
    LET body == IF EndsWithDashSnapshot(s) THEN SubSeq(s, 1, Len(s) - 2) ELSE s
        f == SplitDot(body)
    IN  Len(f) = 3 /\ \A i \in 1..3 : IsDigits(f[i])

ReleaseTag == <<"v">> \o RELEASE_VERSION

(* releases/v<MAJOR>.<MINOR>.x of the release version *)
MaintenanceBranch ==
    <<"releases/v">> \o SplitDot(RELEASE_VERSION)[1] \o <<".">>
        \o SplitDot(RELEASE_VERSION)[2] \o <<".x">>

BranchPushes == {i \in 1..Len(ops) : ops[i].cmd = "push" /\ ops[i].arg = MaintenanceBranch}

(* ---------------------------------------------------------------------- *)
(* Claims                                                                  *)
(* ---------------------------------------------------------------------- *)

(* C1: with dryRun true a run executes no mutating action: no commit of    *)
(* gradle.properties, no local or remote branch created, no tag created,   *)
(* nothing pushed; clone and remote keep the refs they had before the run. *)
(* Violated: PATCH dry runs commit on the maintenance branch, MAJOR/MINOR  *)
(* dry runs create the local maintenance branch.                           *)
C1_DryRunMutatesNothing == DRY_RUN => NothingCreated

(* C2: in PATCH mode, when the maintenance branch is not on the remote the *)
(* run reports the missing branch and exits 1 before any checkout, edit,   *)
(* commit, tag or push; when it is there no branch creation is attempted.  *)
(* Violated: git ls-remote exits 0 without a match, so the script goes on  *)
(* to git checkout.                                                        *)
C2_PatchMissingBranchReported ==
    (PatchMode /\ Attempted("lsRemote")) =>
        /\ MaintenanceBranch \notin repo0.remoteBranches =>
               /\ ~Attempted("checkout")
               /\ NothingCreated
               /\ Done => (exitCode = 1 /\ diag = "BranchMissing")
        /\ MaintenanceBranch \in repo0.remoteBranches => ~Attempted("checkoutNew")

(* C3: when the tag v<releaseVersion> exists in the clone the run exits 1  *)
(* in every mode, with the "already exists" diagnostic once the run gets   *)
(* to the tag check, and no checkout, branch creation, commit, tag         *)
(* creation, push or Gradle release is performed.                          *)
C3_ExistingTagIsFatalBeforeAnyTransition ==
    ReleaseTag \in repo0.localTags =>
        /\ NoMutatingCommand
        /\ RefsUntouched
        /\ HEAD = repo0.HEAD
        /\ Done => exitCode = 1
        /\ (Done /\ Performed("remoteShow")) => diag = "TagExists"

C3_Witness ==
    /\ Done
    /\ MajorMinorMode
    /\ ReleaseTag \in repo0.localTags
    /\ diag = "TagExists"

(* C4 as stated: a MAJOR/MINOR release is carried out only if              *)
(* releaseVersion equals the base of the SNAPSHOT version recorded in      *)
(* gradle.properties; every other combination is fatal.                    *)
C4_ReleasedOnlyFromMatchingSnapshot ==
    (MajorMinorMode /\ Recorded0.present /\ Done /\ exitCode = 0) =>
        (RecordedSnapshot0 /\ RELEASE_VERSION = RecordedBase0)

(* C4 amended: when gradle.properties records a SNAPSHOT version, a        *)
(* MAJOR/MINOR run whose releaseVersion differs from the base of that      *)
(* version exits 1 in the validation section and releases nothing; when    *)
(* the recorded version is not a SNAPSHOT the mode makes no such check.    *)
C4_SnapshotBaseMustMatch ==
    MajorMinorMode =>
        /\ (RecordedSnapshot0 /\ RELEASE_VERSION # RecordedBase0) =>
               /\ pc \in ValidationLabels \cup {"done"}
               /\ NoMutatingCommand
               /\ RefsUntouched
               /\ Done => /\ exitCode = 1
                          /\ diag \in {"InvalidKestraVersion", "InvalidNextVersion",
                                       "InconsistentMinor"}
        /\ ~RecordedSnapshot0 => diag # "InconsistentMinor"

C4_Witness ==
    /\ Done
    /\ MajorMinorMode
    /\ RecordedSnapshot0
    /\ RELEASE_VERSION # RecordedBase0
    /\ diag = "InconsistentMinor"

(* C5: in PATCH mode with a SNAPSHOT recorded, the run is rejected with    *)
(* exit 1 exactly when the release's (major, minor) is greater than or     *)
(* equal to the current (major, minor) in lexicographic order; a release   *)
(* on an older minor line passes the check.                                *)
C5_PatchOnSnapshotRejectsSameOrFutureMinor ==
    (PatchMode /\ RecordedSnapshot0 /\ HasMajorMinor(RELEASE_VERSION)) =>
        IF LexGe(MajorMinorOf(RELEASE_VERSION), MajorMinorOf(RecordedBase0))
        THEN /\ pc \in ValidationLabels \cup {"done"}
             /\ Done => /\ exitCode = 1
                        /\ diag \in {"InvalidKestraVersion", "InvalidPatch"}
        ELSE /\ diag \notin {"InvalidPatch", "UnboundVariable"}
             /\ (Done /\ Attempted("readGradleProperties")) => Attempted("remoteShow")

C5_Witness ==
    /\ Done
    /\ PatchMode
    /\ RecordedSnapshot0
    /\ HasMajorMinor(RELEASE_VERSION)
    /\ MajorMinorOf(RELEASE_VERSION) = MajorMinorOf(RecordedBase0)
    /\ diag = "InvalidPatch"

(* C6: in PATCH mode with a stable version recorded, the run is rejected   *)
(* with exit 1 exactly when the release's (major, minor) is strictly       *)
(* greater than the current (major, minor); the current minor line and     *)
(* every older one pass the check.                                         *)
C6_PatchOnStableRejectsFutureMinorOnly ==
    (PatchMode /\ RecordedStable0 /\ HasMajorMinor(RELEASE_VERSION)) =>
        IF LexGt(MajorMinorOf(RELEASE_VERSION), MajorMinorOf(Recorded0.value))
        THEN /\ pc \in ValidationLabels \cup {"done"}
             /\ Done => /\ exitCode = 1
                        /\ diag \in {"InvalidKestraVersion", "InvalidPatch"}
        ELSE /\ diag \notin {"InvalidPatch", "UnboundVariable"}
             /\ (Done /\ Attempted("readGradleProperties")) => Attempted("remoteShow")

C6_Witness ==
    /\ PatchMode
    /\ RecordedStable0
    /\ HasMajorMinor(RELEASE_VERSION)
    /\ MajorMinorOf(RELEASE_VERSION) = MajorMinorOf(Recorded0.value)
    /\ Performed("commit")

(* the run got past the branch step of MAJOR/MINOR mode to the release *)
AtRelease ==
    \/ pc \in {"returnToDefault", "gradleRelease"}
    \/ Done /\ (Attempted("gradleRelease") \/ exitCode = 0)

LsRemoteAnswered == \E i \in 1..Len(ops) : ops[i].cmd = "lsRemote" /\ ops[i].ok

(* C7: in MAJOR/MINOR mode, once the remote has answered the branch query: *)
(* a maintenance branch already on the remote is neither created nor       *)
(* pushed (zero branch pushes) and the run goes on to the release without  *)
(* error; an absent one is created and, unless the run is a dry run,       *)
(* pushed by exactly one push before the release.                          *)
C7_BranchCreatedExactlyWhenAbsent ==
    (MajorMinorMode /\ LsRemoteAnswered) =>
        /\ MaintenanceBranch \in repo0.remoteBranches =>
               /\ ~Attempted("checkoutNew")
               /\ BranchPushes = {}
               /\ localBranches = repo0.localBranches
               /\ remoteBranches = repo0.remoteBranches
               /\ Done => AtRelease
        /\ (MaintenanceBranch \notin repo0.remoteBranches /\ AtRelease) =>
               /\ Performed("checkoutNew")
               /\ MaintenanceBranch \in localBranches
               /\ ~DRY_RUN => /\ Cardinality(BranchPushes) = 1
                              /\ MaintenanceBranch \in remoteBranches
               /\ DRY_RUN => BranchPushes = {}

C7_Witness ==
    /\ Done
    /\ MajorMinorMode
    /\ ~DRY_RUN
    /\ LsRemoteAnswered
    /\ MaintenanceBranch \in repo0.remoteBranches
    /\ Performed("gradleRelease")
    /\ exitCode = 0

(* C8: a releaseVersion that is not MAJOR.MINOR.PATCH with three numeric   *)
(* components is rejected with exit 1 in PATCH mode as in MAJOR/MINOR      *)
(* mode, and no commit, tag or branch is created.                          *)
(* Violated: PATCH mode never looks at the shape of releaseVersion.        *)
C8_MalformedReleaseVersionRejected ==
    ~IsSemVer(RELEASE_VERSION) =>
        /\ NothingCreated
        /\ Done => exitCode = 1

(* C9: a non-empty nextVersion without the -SNAPSHOT suffix makes the run  *)
(* exit 1 before gradle.properties is read and before any repository       *)
(* command.                                                                *)
C9_NextVersionMustBeSnapshot ==
    (NEXT_VERSION # Empty /\ ~EndsWithDashSnapshot(NEXT_VERSION)) =>
        /\ pc \in {"checkKestraVersion", "checkNextVersion", "done"}
        /\ ops = << >>
        /\ CURRENT_VERSION = Empty
        /\ RepoState = repo0
        /\ remoteUrl = "plain"
        /\ Done => /\ exitCode = 1
                   /\ diag \in {"InvalidKestraVersion", "InvalidNextVersion"}

C9_Witness ==
    /\ Done
    /\ NEXT_VERSION # Empty
    /\ ~EndsWithDashSnapshot(NEXT_VERSION)
    /\ diag = "InvalidNextVersion"
    /\ exitCode = 1

(* C10: no run tags a SNAPSHOT version: a releaseVersion with the          *)
(* -SNAPSHOT suffix is never committed as the version of gradle.properties *)
(* and never becomes a created or pushed tag.                              *)
(* Violated: a PATCH run accepts such a releaseVersion.                    *)
C10_SnapshotNeverTagged ==
    EndsWithDashSnapshot(RELEASE_VERSION) =>
        /\ \A i \in 1..Len(localCommits) :
               localCommits[i].content.version # Line(RELEASE_VERSION)
        /\ ReleaseTag \in localTags => ReleaseTag \in repo0.localTags
        /\ ReleaseTag \in remoteTags => ReleaseTag \in repo0.remoteTags

(* the commit the tag v<releaseVersion> is put on by a completed release:  *)
(* the version commit of a PATCH run, the release commit of the Gradle     *)
(* release (followed by the next-version commit) in MAJOR/MINOR mode       *)
ReleasedCommit ==
    IF PatchMode
    THEN localCommits[Len(localCommits)]
    ELSE localCommits[Len(localCommits) - 1]

CompletedRelease == Done /\ exitCode = 0 /\ ~DRY_RUN

(* C11: when kestraVersion is supplied, the kestraVersion property of      *)
(* gradle.properties in the released commit equals it, in MAJOR/MINOR mode *)
(* as in PATCH mode; when it is not supplied the property is unchanged.    *)
(* Violated: the MAJOR/MINOR branch never uses KESTRA_VERSION.             *)
C11_OverrideCarriedByRelease ==
    (CompletedRelease /\ Recorded0.present) =>
        IF KESTRA_VERSION # Empty
        THEN ReleasedCommit.content.kestraVersion = Line(KESTRA_VERSION)
        ELSE ReleasedCommit.content.kestraVersion = repo0.gradleProperties.kestraVersion

LastOp == ops[Len(ops)]

(* the last step of the run's mode was carried out: the tag push of a     *)
(* PATCH release (the commit, in a dry run), the Gradle release of a       *)
(* MAJOR/MINOR release (the return to the default branch, in a dry run)    *)
RanToCompletion ==
    /\ Done
    /\ Len(ops) > 0
    /\ LastOp.ok
    /\ IF PatchMode
       THEN IF DRY_RUN
            THEN LastOp.cmd = "commit"
            ELSE LastOp.cmd = "push" /\ LastOp.arg = ReleaseTag
       ELSE IF DRY_RUN
            THEN LastOp.cmd = "checkout" /\ LastOp.arg = DEFAULT_BRANCH /\ Attempted("lsRemote")
            ELSE LastOp.cmd = "gradleRelease"

RejectionDiagnostics ==
    {"InvalidKestraVersion", "InvalidNextVersion", "InconsistentMinor", "InvalidPatch",
     "UnknownReleaseType", "TagExists", "BranchMissing"}

(* C12: a run ends with exit code 0 exactly when the release (or its dry   *)
(* run) ran to completion; a run stopped by a validation failure, by a     *)
(* missing maintenance branch (PATCH) or by an existing tag ends with exit *)
(* code 1; a tag that is already on the remote never lets a real release   *)
(* end with 0.                                                             *)
C12_ExitCodeTellsCompletion ==
    Done =>
        /\ (exitCode = 0) = RanToCompletion
        /\ diag \in RejectionDiagnostics => exitCode = 1
        /\ (KESTRA_VERSION # Empty /\ EndsWithDashSnapshot(KESTRA_VERSION)) => exitCode = 1
        /\ (NEXT_VERSION # Empty /\ ~EndsWithDashSnapshot(NEXT_VERSION)) => exitCode = 1
        /\ (PatchMode /\ Attempted("lsRemote")
               /\ MaintenanceBranch \notin repo0.remoteBranches) => exitCode = 1
        /\ ReleaseTag \in repo0.localTags => exitCode = 1
        /\ (ReleaseTag \in repo0.remoteTags /\ ~DRY_RUN) => exitCode # 0

C12_Witness ==
    /\ Done
    /\ PatchMode
    /\ ~DRY_RUN
    /\ RanToCompletion
    /\ exitCode = 0
    /\ ReleaseTag \in remoteTags
    /\ ReleaseTag \notin repo0.remoteTags

MarkedComments == {i \in 1..Len(comments) : includes(comments[i].body, MARKER)}

TitlesRun == {runLog[i].title : i \in 1..Len(runLog)}

LatestContent(title) ==
    LET of == {i \in 1..Len(runLog) : runLog[i].title = title}
    IN  runLog[CHOOSE i \in of : \A j \in of : j <= i].content

(* the section of a title as the claim has it: the delimiters carrying the *)
(* hash of the title around the heading and the content (around nothing    *)
(* for a blank content)                                                    *)
SectionFor(title, content) ==
    <<Open(simpleHash(title)), NL>>
    \o (IF \A i \in 1..Len(content) : content[i] \in Whitespace
        THEN << >>
        ELSE <<Heading(title), NL, NL>> \o Chars(content) \o <<NL>>)
    \o <<Close(simpleHash(title))>>

Occurrences(s, tok) == {i \in 1..Len(s) : s[i] = tok}

HoldsOneSection(body, title) ==
    LET opens == Occurrences(body, Open(simpleHash(title)))
        section == SectionFor(title, LatestContent(title))
    IN  /\ Cardinality(opens) = 1
        /\ Cardinality(Occurrences(body, Close(simpleHash(title)))) = 1
        /\ \A at \in opens :
               /\ at + Len(section) - 1 <= Len(body)
               /\ SubSeq(body, at, at + Len(section) - 1) = section

DistinctHashes ==
    \A t, u \in TitlesRun : simpleHash(t) = simpleHash(u) => t = u

(* C13: after any sequence of sequential runs of the comment action on one *)
(* pull request the pull request has exactly one comment with the marker,  *)
(* and that comment holds exactly one hash-delimited section for each      *)
(* title that was run, with the content of the latest run of that title;   *)
(* stated here for titles whose hashes differ.                             *)
(* Violated: the section is put in with String.replaceAll, which expands   *)
(* the dollar patterns of the new content.                                 *)
C13_OneSectionPerTitleWithLatestContent ==
    (runLog # << >> /\ DistinctHashes) =>
        /\ Cardinality(MarkedComments) = 1
        /\ \A marked \in MarkedComments :
               \A title \in TitlesRun : HoldsOneSection(comments[marked].body, title)

(* MAJOR.MINOR.PATCH of decimal numbers written without leading zeros *)
PlainSemVer(s) ==
    LET f == SplitDot(s)
    IN  /\ Len(f) = 3
        /\ \A i \in 1..3 : IsDigits(f[i]) /\ (Len(f[i]) > 1 => f[i][1] # "0")

Triple(s) == [i \in 1..3 |-> NumIn(SplitDot(s)[i], 10)]

(* the next versions the bump policy can expect after cur, one for each    *)
(* classification of the commits                                           *)
ExpectedNextVersions(cur) ==
    { <<cur[1] + 1, 0, 0>>, <<cur[1], cur[2] + 1, 0>>, <<cur[1], cur[2], cur[3] + 1>> }

CoherenceEvaluated ==
    /\ pc \notin ValidationLabels
    /\ diag \notin {"InvalidKestraVersion", "InvalidNextVersion"}

CoherentWithRecorded ==
    IF MajorMinorMode
    THEN RecordedSnapshot0 => RELEASE_VERSION = RecordedBase0
    ELSE IF RecordedSnapshot0
         THEN LexGt(MajorMinorOf(RecordedBase0), MajorMinorOf(RELEASE_VERSION))
         ELSE LexGe(MajorMinorOf(Recorded0.value), MajorMinorOf(RELEASE_VERSION))

OpsOf(cmd, arg) == {i \in 1..Len(ops) : ops[i].cmd = cmd /\ ops[i].arg = arg}

DoneOps(cmd, arg) == {i \in OpsOf(cmd, arg) : ops[i].ok}

TagPublished == ReleaseTag \in remoteTags /\ ReleaseTag \notin repo0.remoteTags

(* C17: in a PATCH release that is not a dry run the steps come in this    *)
(* order on the maintenance branch: the commit of gradle.properties, right *)
(* after it the tag v<releaseVersion>, then the push of the branch, then   *)
(* the push of the tag. So once the tag is on the remote, the commit it is *)
(* on has been pushed to the maintenance branch and records                *)
(* version=<releaseVersion> (gradle.properties having a version line), and *)
(* the default branch got no commit and no push.                           *)
C17_PatchStepsInOrder ==
    (PatchMode /\ ~DRY_RUN /\ Attempted("commit")) =>
        /\ \A t \in OpsOf("tag", ReleaseTag) :
               t - 1 \in DoneOps("commit", MaintenanceBranch)
        /\ \A b \in OpsOf("push", MaintenanceBranch) :
               b - 1 \in DoneOps("tag", ReleaseTag)
        /\ \A p \in OpsOf("push", ReleaseTag) :
               p - 1 \in DoneOps("push", MaintenanceBranch)
        /\ \A i \in 1..Len(localCommits) : localCommits[i].branch = MaintenanceBranch
        /\ \A i \in 1..Len(pushes) : pushes[i].ref # DEFAULT_BRANCH
        /\ TagPublished =>
               /\ MaintenanceBranch \in remoteBranches
               /\ Len(pushes) = 2
               /\ pushes[1].ref = MaintenanceBranch
               /\ pushes[2].ref = ReleaseTag
               /\ pushes[1].commits = localCommits
               /\ pushes[2].commits = localCommits
               /\ Len(localCommits) = 1
               /\ gradleProperties.version.present =>
                      localCommits[1].content.version = Line(RELEASE_VERSION)

C17_Witness ==
    /\ Done
    /\ PatchMode
    /\ ~DRY_RUN
    /\ TagPublished
    /\ Len(pushes) = 2
    /\ localCommits[1].content.version = Line(RELEASE_VERSION)

GradleInvocations == {i \in 1..Len(ops) : ops[i].cmd = "gradleRelease"}

(* C18: in MAJOR/MINOR mode the Gradle release is invoked only after the   *)
(* default branch was checked out and pulled, and with the default branch  *)
(* as the current branch, also when the maintenance branch was created and *)
(* checked out earlier in the run; its commits are made on the default     *)
(* branch, never on the maintenance branch.                                *)
C18_GradleReleaseOnDefaultBranch ==
    MajorMinorMode =>
        /\ pc = "gradleRelease" => HEAD = DEFAULT_BRANCH
        /\ \A g \in GradleInvocations :
               /\ ops[g].arg = DEFAULT_BRANCH
               /\ HEAD = DEFAULT_BRANCH
               /\ g - 1 \in DoneOps("checkout", DEFAULT_BRANCH)
               /\ \E c \in DoneOps("checkout", DEFAULT_BRANCH),
                     q \in DoneOps("pull", DEFAULT_BRANCH) : c < q /\ q < g
        /\ \A i \in 1..Len(localCommits) : localCommits[i].branch = DEFAULT_BRANCH
        /\ \A i \in 1..Len(pushes) : pushes[i].ref = MaintenanceBranch =>
               pushes[i].commits = repo0.localCommits

C18_Witness ==
    /\ Done
    /\ MajorMinorMode
    /\ Performed("checkoutNew")
    /\ Performed("gradleRelease")
    /\ MaintenanceBranch \in localBranches
    /\ HEAD = DEFAULT_BRANCH
    /\ Len(localCommits) = 2

(* the mode as the claim decides it from the shape of releaseVersion *)
ClaimedMode ==
    LET f == SplitDot(RELEASE_VERSION)
        numeric == Len(f) = 3 /\ \A i \in 1..3 : IsDigits(f[i])
    IN  IF NEXT_VERSION = Empty THEN "PATCH"
        ELSE IF numeric /\ f[2] = <<"0">> /\ f[3] = <<"0">> THEN "MAJOR"
        ELSE IF numeric /\ NumIn(f[2], 10) >= 1 /\ f[2][1] # "0" /\ f[3] = <<"0">>
        THEN "MINOR"
        ELSE "UNKNOWN"

TypeDetermined ==
    /\ pc \notin ValidationLabels \cup {"checkReleaseType"}
    /\ Done => (diag \notin {"InvalidKestraVersion", "InvalidNextVersion", "InconsistentMinor",
                             "InvalidPatch", "UnboundVariable", "UnknownReleaseType"})

(* C19: without nextVersion the mode is PATCH whatever the shape of        *)
(* releaseVersion (also X.Y.0); with nextVersion it is MAJOR for N.0.0 and *)
(* MINOR for N.M.0 with M at least 1 and no leading zero; with nextVersion *)
(* and any other releaseVersion the run exits 1 before the remote URL, a   *)
(* branch, a commit or a tag is touched.                                   *)
C19_ModeDecidedByNextVersionAndShape ==
    /\ RELEASE_TYPE = ClaimedMode
    /\ TypeDetermined => ClaimedMode # "UNKNOWN"
    /\ (Attempted("commit") \/ pc = "patchLsRemote") => ClaimedMode = "PATCH"
    /\ (Attempted("fetch") \/ Attempted("gradleRelease") \/ pc = "checkoutDefault") =>
           ClaimedMode \in {"MAJOR", "MINOR"}
    /\ ClaimedMode = "UNKNOWN" =>
           /\ pc \in ValidationLabels \cup {"checkReleaseType", "done"}
           /\ remoteUrl = "plain"
           /\ NoMutatingCommand
           /\ RepoState = repo0
           /\ Done => /\ exitCode = 1
                      /\ diag \in {"InvalidKestraVersion", "InvalidNextVersion",
                                   "InconsistentMinor", "UnknownReleaseType"}

C19_Witness ==
    /\ Done
    /\ NEXT_VERSION # Empty
    /\ PlainSemVer(RELEASE_VERSION)
    /\ Triple(RELEASE_VERSION)[3] >= 1
    /\ diag = "UnknownReleaseType"
    /\ exitCode = 1

RejectedByCheck ==
    /\ Done
    /\ diag \in {"InvalidKestraVersion", "InvalidNextVersion", "InconsistentMinor",
                 "InvalidPatch", "UnknownReleaseType", "TagExists"}

(* one of the rejecting conditions holds of the inputs and of the          *)
(* repository the run started on                                           *)
MustBeRejected ==
    \/ KESTRA_VERSION # Empty /\ EndsWithDashSnapshot(KESTRA_VERSION)
    \/ NEXT_VERSION # Empty /\ ~EndsWithDashSnapshot(NEXT_VERSION)
    \/ PlainSemVer(RELEASE_VERSION) /\ Recorded0.present /\ ~CoherentWithRecorded
    \/ ClaimedMode = "UNKNOWN"
    \/ ReleaseTag \in repo0.localTags

(* C20: every rejecting check (kestraVersion ending with -SNAPSHOT,        *)
(* nextVersion without -SNAPSHOT, coherence with the recorded version,     *)
(* unknown release type, existing tag) is evaluated before the first       *)
(* checkout, file edit, commit, branch creation, tag creation or push; a   *)
(* run rejected by one of them leaves gradle.properties, the local         *)
(* branches and tags and the remote branches and tags unchanged.           *)
C20_ChecksPrecedeEveryMutation ==
    /\ RejectedByCheck =>
           /\ exitCode = 1
           /\ NoMutatingCommand
           /\ RepoState = repo0
    /\ MustBeRejected =>
           /\ NoMutatingCommand
           /\ RepoState = repo0
           /\ pc \in ValidationLabels \cup {"checkReleaseType", "setRemoteUrl",
                       "computeReleaseBranch", "detectDefaultBranch", "checkTag", "done"}
    /\ ~NoMutatingCommand => pc \notin ValidationLabels \cup {"checkReleaseType", "checkTag"}

C20_Witness ==
    /\ Done
    /\ diag = "TagExists"
    /\ remoteUrl = "authed"
    /\ Attempted("remoteShow")
    /\ RepoState = repo0
    /\ ReleaseTag \in repo0.localTags

BothFinished == workers # << >> /\ \A w \in Instances : workers[w].pc = "done"

(* C21: when two runs of the comment action with different titles execute  *)
(* at the same time on one pull request, then after both have finished,    *)
(* whatever the interleaving of their list, create and update calls, the   *)
(* pull request has a single marked comment and that comment carries the   *)
(* delimiters of the section of each of the two titles.                    *)
(* Violated: both instances list before either writes, and then both       *)
(* create a comment, or both update the body they listed and the later     *)
(* write drops the section of the earlier one.                             *)
C21_ConcurrentRunsShareOneComment ==
    BothFinished =>
        /\ Cardinality(MarkedComments) = 1
        /\ \A marked \in MarkedComments : \A w \in Instances :
               /\ includes(comments[marked].body, Open(simpleHash(workers[w].title)))
               /\ includes(comments[marked].body, Close(simpleHash(workers[w].title)))

(* the run being made repeats the title and the content of the run before it *)
RepeatsLatestRun ==
    /\ runLog # << >>
    /\ runLog' = Append(runLog, runLog[Len(runLog)])

(* C22: running the comment action twice in sequence with the same title   *)
(* and the same rendered content leaves the body of the marked comment as   *)
(* it was after the first run, whether the first run created the comment,   *)
(* appended the section or replaced it.                                     *)
(* Violated: the second run puts the section in with String.replaceAll,     *)
(* which expands the dollar patterns of the content the first run wrote     *)
(* literally.                                                               *)
C22_SameRunTwiceKeepsBody ==
    [][RepeatsLatestRun => comments' = comments]_vars

LatestRun == runLog[Len(runLog)]

(* the run being made has a rendered template that is empty or blank *)
BlankRun ==
    /\ Len(runLog') = Len(runLog) + 1
    /\ \A i \in 1..Len(LatestRun'.content) : LatestRun'.content[i] \in Whitespace

(* the body of the marked comment, and the section delimited in it by the  *)
(* hash of a title (nothing when the delimiters are not there)             *)
MarkedBody == IF findComment = 0 THEN << >> ELSE comments[findComment].body

SectionIn(body, title) ==
    LET m == regExpMatch(body, simpleHash(title))
    IN  IF m.found THEN SubSeq(body, m.first, m.last) ELSE << >>

(* C23, as claimed: when the rendered template is empty or whitespace only, *)
(* the section of the title in the marked comment is reduced to its two     *)
(* hash delimiters with no heading and no content between them, replacing   *)
(* any earlier content of that title, the sections of the other titles run  *)
(* before are kept, and no job summary is written even when add-summary is  *)
(* true.                                                                    *)
(* Violated: the section is keyed by the hash of the title, and two titles  *)
(* with the same hash share one section, so a blank run of one title        *)
(* empties the section of the other.                                        *)
C23_BlankTemplateKeepsOtherTitles ==
    [][BlankRun =>
          LET title == LatestRun'.title
          IN  /\ SectionIn(MarkedBody', title)
                     = <<Open(simpleHash(title)), NL, Close(simpleHash(title))>>
              /\ \A other \in TitlesRun \ {title} :
                     SectionIn(MarkedBody', other) = SectionIn(MarkedBody, other)
              /\ summary' = << >>]_vars

(* C23, amended: when the rendered template is empty or whitespace only,    *)
(* the section delimited by the hash of the title is reduced to its two     *)
(* delimiters with nothing but a newline between them, the sections of the  *)
(* titles run before whose hash differs are kept, and no job summary is     *)
(* written whatever add-summary is.                                         *)
C23_BlankTemplateKeepsOtherHashes ==
    [][BlankRun =>
          LET title == LatestRun'.title
          IN  /\ SectionIn(MarkedBody', title)
                     = <<Open(simpleHash(title)), NL, Close(simpleHash(title))>>
              /\ \A other \in TitlesRun :
                     simpleHash(other) # simpleHash(title) =>
                         SectionIn(MarkedBody', other) = SectionIn(MarkedBody, other)
              /\ summary' = << >>]_vars

(* a blank run with add-summary on, after a run of the same title and a    *)
(* run of a title with another hash that both had content                  *)
C23_Witness ==
    /\ Len(runLog) = 3
    /\ LatestRun.content = <<" ">>
    /\ addSummary
    /\ runLog[1].title = LatestRun.title /\ runLog[1].content = <<"a">>
    /\ simpleHash(runLog[2].title) # simpleHash(LatestRun.title)
    /\ runLog[2].content = <<"a">>
    /\ SectionIn(MarkedBody, LatestRun.title)
           = <<Open(simpleHash(LatestRun.title)), NL, Close(simpleHash(LatestRun.title))>>
    /\ SectionIn(MarkedBody, runLog[2].title) = SectionFor(runLog[2].title, <<"a">>)
    /\ summary = << >>

Returned == fetchPc = "done"

ComparisonSucceeded == \E i \in 1..Len(calls) : calls[i].api = "compareCommits" /\ calls[i].ok

(* the comparisons against master made after a comparison failed *)
MasterFallbacks ==
    {i \in 2..Len(calls) :
        /\ calls[i].api = "compareCommits" /\ calls[i].head = <<"master">>
        /\ calls[i - 1].api = "compareCommits" /\ ~calls[i - 1].ok}

(* C24: _fetchUnreleasedCommits never propagates an error: whichever of its *)
(* GitHub calls fails, it returns an object with a latestTag, 'unknown'     *)
(* when no release or tag was found, and a commits list that is empty when  *)
(* no comparison succeeded; the fallback comparison against 'master' is     *)
(* made only when the default branch is 'main'.                             *)
C24_FetchNeverPropagates ==
    /\ fetchPc # "thrown"
    /\ Returned =>
           /\ returned.latestTag =
                  (IF latestTag.null \/ latestTag.value = << >> THEN <<"unknown">>
                   ELSE latestTag.value)
           /\ ~ComparisonSucceeded => returned.commits = << >>
    /\ MasterFallbacks # {} => defaultBranch = <<"main">>

(* no release, a tag from the tag list, no repository info, and both the   *)
(* comparison and its fallback against master failed                       *)
C24_Witness ==
    /\ Returned
    /\ Len(calls) = 5
    /\ \A i \in {1, 3, 4, 5} : ~calls[i].ok
    /\ calls[5].head = <<"master">>
    /\ returned = [latestTag |-> <<"v2">>, commits |-> << >>]

RequestsOf(log, r) == {i \in 1..Len(log) : log[i].run = r}

SourceAnswers(log, r, statuses) ==
    {i \in RequestsOf(log, r) : log[i].purpose = "source" /\ log[i].status \in statuses}

Patches(log, r) == {i \in RequestsOf(log, r) : log[i].method = "PATCH"}

(* C25: if the release of the tag is not found (404) in any one of the      *)
(* source repositories, the release-note merge halts: in every step of that *)
(* run no update request is sent to the target release and the bodies of    *)
(* the releases stay as they are, even when the notes of the other source   *)
(* were fetched, and whichever answer came first.                           *)
C25_NotFoundHaltsTheMerge ==
    [][SourceAnswers(requests', runsDone + 1, {404}) # {} =>
          /\ Patches(requests', runsDone + 1) = {}
          /\ releases' = releases]_vars

(* the notes of kestra were fetched, the release of kestra-ee was not       *)
(* found, and the run is over                                               *)
C25_Witness ==
    /\ mergePc = "done"
    /\ runsDone = 1
    /\ Len(requests) = 2
    /\ \E i, j \in 1..2 :
           /\ requests[i].repo = "kestra" /\ requests[i].status = 200
           /\ requests[j].repo = "kestra-ee" /\ requests[j].status = 404
    /\ ~allReleasesFound
    /\ ~releaseNotes[1].note.null
    /\ releases["kestra"] = Release(<<"oss">>)

(* C26: if fetching the release notes of a source repository fails with an  *)
(* error other than 404, the target release is not overwritten with a       *)
(* partial merge: an update request is sent in a run only when the notes of *)
(* every source repository were fetched in that run.                        *)
(* Violated: a source that fails otherwise gives a null note that is        *)
(* filtered out, and the notes of the other source are sent as the body.    *)
C26_NoUpdateFromPartialMerge ==
    \A r \in 1..MaxMergeRuns :
        Patches(requests, r) # {} =>
            Cardinality(SourceAnswers(requests, r, {200})) = Len(SOURCE_REPOS)

(* C27: the release-note merge is idempotent: when the script is run twice  *)
(* in sequence for the same tag and every request of both runs succeeds,    *)
(* the body sent by the second run is the body sent by the first.           *)
(* Violated: the target release is the release of the first source, so the  *)
(* second run merges the body that the first run wrote.                     *)
C27_SecondMergeKeepsBody ==
    (\A i \in 1..Len(requests) : requests[i].status = 200) =>
        \A i \in Patches(requests, 1), j \in Patches(requests, 2) :
            requests[j].body = requests[i].body

ProjectOf(P) == IF P = 0 THEN gradle.root ELSE gradle.subprojects[P]

Posted == {i \in 1..Len(indexOut) : indexOut[i].did = "POST"}

(* the projects of the build in the order main indexes them *)
Listed ==
    IF gradle.subprojects = << >> THEN <<0>>
    ELSE [i \in 1..Len(gradle.subprojects) |-> i]

SomePropertyEmpty(project) ==
    \E name \in {"group", "archivesBaseName", "version", "kestraVersion"} :
        project[name].value = << >>

(* C29: the release-indexing script sends no webhook POST for a project     *)
(* whose group, artifact, version or minimum core version is empty: when    *)
(* it gets to the webhook with dry-run off, it reports that the webhook is  *)
(* skipped because some properties are null.                                *)
(* Violated: the guard tests the variables after the empty ones were        *)
(* replaced by the word null, so it never finds an empty one.               *)
C29_NoPostWithEmptyProperty ==
    \A i \in 1..Len(indexOut) :
        (SomePropertyEmpty(ProjectOf(indexOut[i].project)) /\ indexArgs.DRY_RUN # "true") =>
            indexOut[i].did = "skip: some properties are null"

DigitsOnlyTriple(v) ==
    LET f == SplitDot(v)
    IN  Len(f) = 3 /\ IsDigits(f[1]) /\ IsDigits(f[2]) /\ IsDigits(f[3])

Unfit(P) ==
    \/ gitHead = "detached"
    \/ ~DigitsOnlyTriple(ProjectOf(P).version.value)
    \/ ~DigitsOnlyTriple(ProjectOf(P).kestraVersion.value)

(* C30: the release-indexing script posts to the webhook only when dry-run  *)
(* is not 'true' and both the plugin version and the kestra version of the  *)
(* project match MAJOR.MINOR.PATCH with digits only; a version that does    *)
(* not match, or a detached HEAD that is not on a tag, ends the script with *)
(* a non-zero exit code and no POST for that project or any later one.      *)
C30_PostOnlyForReleaseVersions ==
    /\ \A i \in Posted :
           /\ indexArgs.DRY_RUN # "true"
           /\ ~Unfit(indexOut[i].project)
    /\ indexPc = "done" =>
           \A k \in 1..Len(Listed) :
               Unfit(Listed[k]) =>
                   /\ indexExit # 0
                   /\ \A i \in Posted : indexOut[i].project < Listed[k]

(* two subprojects on a branch: the first was posted, the second has a     *)
(* snapshot version and ended the script                                    *)
C30_Witness ==
    /\ indexPc = "done"
    /\ Len(gradle.subprojects) = 2
    /\ gitHead = "branch"
    /\ gradle.subprojects[2].version.value = <<"1", ".", "2", ".", "3", "-", "SNAPSHOT">>
    /\ Posted = {1}
    /\ indexOut[1].project = 1
    /\ indexExit = 1

(* C28: in the release-indexing script that takes the release version as an *)
(* argument, a multi-project build runs the indexing step once for every    *)
(* subproject in listed order: with a valid release version and kestra      *)
(* version, dry-run off, a checkout on a branch or a tag and the group and  *)
(* name of every subproject printed by Gradle, one webhook POST is sent per *)
(* subproject, each carrying the same version and minimum core version, and *)
(* the script exits 0.                                                      *)
(* Violated: the first call of index rewrites the global RELEASE_VERSION    *)
(* with quotes around it, and the second call rejects it.                   *)
C28_OnePostPerSubproject ==
    ( /\ indexPc = "done"
      /\ gradle.subprojects # << >>
      /\ \A i \in 1..Len(gradle.subprojects) :
             gradle.subprojects[i].group.present /\ gradle.subprojects[i].name.present
      /\ gitHead # "detached"
      /\ DigitsOnlyTriple(indexArgs.RELEASE_VERSION)
      /\ DigitsOnlyTriple(indexArgs.KESTRA_VERSION)
      /\ indexArgs.DRY_RUN # "true" ) =>
        /\ indexExit = 0
        /\ Len(indexOut) = Len(gradle.subprojects)
        /\ \A i \in 1..Len(indexOut) :
               /\ indexOut[i].did = "POST"
               /\ indexOut[i].project = i
               /\ indexOut[i].json.version = <<"\"">> \o indexArgs.RELEASE_VERSION \o <<"\"">>
               /\ indexOut[i].json.minCoreCompatibilityVersion
                      = <<"\"">> \o indexArgs.KESTRA_VERSION \o <<"\"">>

====
